---- MODULE Spec2Model ----
(***************************************************************************)
(* Model of the scan-pattern pipeline of src/scanning/coordinates.py:      *)
(* construction of SkyPattern, Pong, Daisy and TelescopePattern objects.   *)
(*                                                                         *)
(* Numbers.  The code works in floating point; the model works in exact    *)
(* integer arithmetic on scaled quantities:                                *)
(*   - input times are integers ("ticks"); an object whose sample interval *)
(*     is the mean of n intervals stores every time as a multiple of 1/n   *)
(*     tick (variable unit = n), so that the mean is exact;                *)
(*   - Pong angles are integers in one angular unit and the velocity is in *)
(*     angular units per tick;                                             *)
(*   - ceil(w / (sqrt(2)*s)) is computed exactly by comparing squares;     *)
(*   - Daisy positions and tangent vectors are fixed-point numbers with    *)
(*     Fix units per angular unit, and r is compared through r*r.          *)
(* A keyword dictionary is a function from the set of keys present to      *)
(* integers; math.nan is the reserved value NaN.                           *)
(***************************************************************************)
EXTENDS Integers, Sequences, FiniteSets, TLC

VARIABLES
    pc,         \* "new" before the constructor call, "done" after it
    cls,        \* class whose constructor was called
    args,       \* the arguments of the call, as the caller passed them
    param,      \* self.param of the constructed object
    data,       \* self.data of the constructed object
    unit,       \* stored times are multiples of 1/unit tick
    caller_dict,\* the caller's param_json dictionary, as the call leaves it
    num_vert,   \* Pong._generate_scan: the list num_vert
    most_i,     \* Pong._generate_scan: index (1 or 2) of the larger count
    daisy,      \* Daisy._generate_scan: its local variables
    sample_interval, \* TelescopePattern.sample_interval, in 1/unit tick
    solve,      \* _transform_to_boresight: the local variables of its loop
    err         \* "none", or the exception the constructor raised

vars == <<pc, cls, args, param, data, unit, caller_dict, num_vert, most_i, daisy,
          sample_interval, solve, err>>

-----------------------------------------------------------------------------
(* Bounds of the model *)

MaxLen == 3          \* longest input trajectory
BaseStep == 100      \* nominal input sample interval, in ticks
MaxJitter == 1       \* input intervals range over BaseStep +/- MaxJitter
MaxRepeat == 3       \* largest num_repeat keyword
MaxDurSteps == 7     \* largest max_scan_duration keyword, in BaseSteps
MaxSide == 4         \* largest Pong width and height
MaxSpacing == 2      \* largest Pong spacing
MaxVelocity == 8     \* largest Pong velocity
MaxTerm == 2         \* largest Pong num_term
MaxPongDuration == 70 \* largest max_scan_duration of a Pong, in ticks
MaxVert == 40        \* the while loop of Pong is followed up to this vertex count
MaxGrid == 25        \* Pong grid: widths and heights 1..MaxGrid
MaxGridSpacing == 3  \* Pong grid: spacings 1..MaxGridSpacing
MaxSpeed == 2        \* largest Daisy velocity and start_acc
MaxRadius == 3       \* the positive Daisy R0
MaxT == 10           \* largest Daisy T, in ticks
MaxOffset == 5       \* largest first offset of a sky pattern, in degrees
MaxDist == 10        \* largest module distance from the boresight, in degrees
MaxValue == 2        \* the series to differentiate take values in -MaxValue..MaxValue

NaN == -1000000      \* math.nan, outside every input range

-----------------------------------------------------------------------------
(* Arithmetic helpers *)

Abs(a) == IF a < 0 THEN -a ELSE a

\* math.floor(a / b) for b # 0
FloorDiv(a, b) ==
    IF b > 0 THEN a \div b ELSE (-a) \div (-b)

\* math.ceil(a / b) for b # 0
CeilDiv(a, b) == -FloorDiv(-a, b)

\* int(a / b) for b # 0: towards zero
TruncDiv(a, b) == IF (a >= 0) = (b > 0) THEN Abs(a) \div Abs(b) ELSE -(Abs(a) \div Abs(b))

RECURSIVE SumSeq(_)
SumSeq(s) == IF s = <<>> THEN 0 ELSE Head(s) + SumSeq(Tail(s))

RECURSIVE SumSqSeq(_)
SumSqSeq(s) == IF s = <<>> THEN 0 ELSE Head(s) * Head(s) + SumSqSeq(Tail(s))

\* np.diff
Diff(t) == [i \in 1..(Len(t) - 1) |-> t[i + 1] - t[i]]

-----------------------------------------------------------------------------
(* Dictionaries *)

EmptyDict == [k \in {} |-> 0]

Has(d, k) == k \in DOMAIN d

\* dict.get(k, default)
Get(d, k, default) == IF Has(d, k) THEN d[k] ELSE default

\* d[k] = v
Put(d, k, v) == [j \in DOMAIN d \cup {k} |-> IF j = k THEN v ELSE d[j]]

\* d.pop(k), for k present
Pop(d, k) == [j \in DOMAIN d \ {k} |-> d[j]]

\* d.update(e)
Update(d, e) == [j \in DOMAIN d \cup DOMAIN e |-> IF j \in DOMAIN e THEN e[j] ELSE d[j]]

-----------------------------------------------------------------------------
(* Results of a constructor: an object or an exception *)

EmptyData == [time_offset |-> <<>>, x_coord |-> <<>>, y_coord |-> <<>>]

Ok(p, d, u) == [err |-> "none", param |-> p, data |-> d, unit |-> u]
Raise(e) == [err |-> e, param |-> EmptyDict, data |-> EmptyData, unit |-> 1]

-----------------------------------------------------------------------------
(* SkyPattern *)

\* a wrong comparison: std/mean < 0.01
IntervalConstantStrict(iv) ==
    LET n == Len(iv)
        S == SumSeq(iv)
        V == n * SumSqSeq(iv) - S * S
    IN  IF n = 0 \/ S = 0 THEN FALSE
        ELSE IF S < 0 THEN TRUE
        ELSE 10000 * V < S * S

\* SkyPattern.__init__: is std(intervals)/mean(intervals) <= 0.01 ?
\* With n intervals of sum S and sum of squares Q, std/mean = sqrt(n*Q - S*S)/S.
\* No interval or mean 0 gives nan or inf, which is not <= 0.01; a negative
\* mean gives a ratio <= 0.
IntervalConstant(iv) ==
    LET n == Len(iv)
        S == SumSeq(iv)
        V == n * SumSqSeq(iv) - S * S
    IN  IF n = 0 \/ S = 0 THEN FALSE
        ELSE IF S < 0 THEN TRUE
        ELSE V <= (S * S) \div 10000

\* a wrong _clean_param: max_scan_duration silently wins over num_repeat
SkyCleanParamLenient(repeatable, kw) ==
    IF repeatable
    THEN IF Has(kw, "max_scan_duration")
         THEN [err |-> "none", kw |-> Put(kw, "num_repeat", NaN)]
         ELSE [err |-> "none", kw |-> Put(kw, "num_repeat", Get(kw, "num_repeat", 1))]
    ELSE IF Has(kw, "max_scan_duration") \/ Has(kw, "num_repeat")
         THEN [err |-> "ValueError", kw |-> kw]
         ELSE [err |-> "none", kw |-> Put(kw, "num_repeat", 1)]

\* SkyPattern._clean_param
SkyCleanParam(repeatable, kw) ==
    IF repeatable
    THEN IF Has(kw, "max_scan_duration") /\ Has(kw, "num_repeat")
         THEN [err |-> "ValueError", kw |-> kw]
         ELSE IF Has(kw, "max_scan_duration")
         THEN [err |-> "none", kw |-> Put(kw, "num_repeat", NaN)]
         ELSE [err |-> "none", kw |-> Put(kw, "num_repeat", Get(kw, "num_repeat", 1))]
    ELSE IF Has(kw, "max_scan_duration") \/ Has(kw, "num_repeat")
         THEN [err |-> "ValueError", kw |-> kw]
         ELSE [err |-> "none", kw |-> Put(kw, "num_repeat", 1)]

\* the loop of _repeat_scan: copy i (0 <= i < k) is the period shifted by
\* one_scan_duration*i, appended after copy i-1; k <= 1 leaves the data alone
Tile(d, dur, k) ==
    IF k <= 1 THEN d
    ELSE LET L == Len(d.time_offset)
         IN  [time_offset |-> [j \in 1..(L * k) |->
                  d.time_offset[((j - 1) % L) + 1] + dur * ((j - 1) \div L)],
              x_coord |-> [j \in 1..(L * k) |-> d.x_coord[((j - 1) % L) + 1]],
              y_coord |-> [j \in 1..(L * k) |-> d.y_coord[((j - 1) % L) + 1]]]

\* a wrong duration: the last time_offset alone
OneScanDurationLast(p, d) == d.time_offset[Len(d.time_offset)]

\* one_scan_duration of _repeat_scan, for a period d that is not empty
OneScanDuration(p, d) == d.time_offset[Len(d.time_offset)] + p["sample_interval"]

\* SkyPattern._repeat_scan, for self.param = p and one period d
RepeatScan(p, d, u) ==
    IF Len(d.time_offset) = 0 THEN Raise("IndexError")
    ELSE
    LET one_scan_duration == OneScanDuration(p, d)
    IN  IF p["num_repeat"] = NaN
        THEN IF one_scan_duration = 0 THEN Raise("OverflowError")
             ELSE LET num_repeat == FloorDiv(p["max_scan_duration"], one_scan_duration)
                  IN  IF num_repeat < 1 THEN Raise("ValueError")
                      ELSE Ok(Put(Pop(p, "max_scan_duration"), "num_repeat", num_repeat),
                              Tile(d, one_scan_duration, num_repeat), u)
        ELSE Ok(p, Tile(d, one_scan_duration, p["num_repeat"]), u)

\* SkyPattern.__init__(data, repeatable, **kwargs).  Times are stored in
\* units of 1/n tick, n the number of intervals, so sample_interval = S.
SkyPatternNew(d, repeatable, kw) ==
    LET iv == Diff(d.time_offset)
        n  == Len(iv)
    IN  IF ~IntervalConstant(iv) THEN Raise("ValueError")
        ELSE
        LET scaled == [d EXCEPT !.time_offset = [i \in 1..Len(d.time_offset) |-> n * d.time_offset[i]]]
            kw1 == Put(IF Has(kw, "max_scan_duration")
                       THEN Put(kw, "max_scan_duration", n * kw["max_scan_duration"])
                       ELSE kw,
                       "sample_interval", SumSeq(iv))
            cp == SkyCleanParam(repeatable, kw1)
        IN  IF cp.err # "none" THEN Raise(cp.err)
            ELSE RepeatScan(cp.kw, scaled, n)

-----------------------------------------------------------------------------
(* Trigonometry in fixed point: angles in millidegrees, values times 10000 *)

SinTab ==
    <<0, 175, 349, 523, 698, 872, 1045, 1219, 1392, 1564,
      1736, 1908, 2079, 2250, 2419, 2588, 2756, 2924, 3090, 3256,
      3420, 3584, 3746, 3907, 4067, 4226, 4384, 4540, 4695, 4848,
      5000, 5150, 5299, 5446, 5592, 5736, 5878, 6018, 6157, 6293,
      6428, 6561, 6691, 6820, 6947, 7071, 7193, 7314, 7431, 7547,
      7660, 7771, 7880, 7986, 8090, 8192, 8290, 8387, 8480, 8572,
      8660, 8746, 8829, 8910, 8988, 9063, 9135, 9205, 9272, 9336,
      9397, 9455, 9511, 9563, 9613, 9659, 9703, 9744, 9781, 9816,
      9848, 9877, 9903, 9925, 9945, 9962, 9976, 9986, 9994, 9998,
      10000>>

\* sin on [0, 90] degrees, linear between whole degrees
SinQuarter(m) ==
    LET d == m \div 1000
        f == m % 1000
    IN  IF f = 0 THEN SinTab[d + 1]
        ELSE SinTab[d + 1] + ((SinTab[d + 2] - SinTab[d + 1]) * f) \div 1000

\* math.sin of m millidegrees
Sin(m) ==
    LET r == m % 360000
    IN  IF r <= 90000 THEN SinQuarter(r)
        ELSE IF r <= 180000 THEN SinQuarter(180000 - r)
        ELSE IF r <= 270000 THEN -SinQuarter(r - 180000)
        ELSE -SinQuarter(360000 - r)

\* math.cos of m millidegrees
Cos(m) == Sin(m + 90000)

-----------------------------------------------------------------------------
(* Pong *)

RECURSIVE GCD(_, _)
\* math.gcd
GCD(a, b) == IF b = 0 THEN Abs(a) ELSE GCD(b, a % Abs(b))

\* math.ceil(w / (sqrt(2)*s)) for s # 0, exactly: sqrt(2) is irrational, so
\* n >= w/(sqrt(2)*s) is decided by comparing 2*n*n*s*s with w*w
CeilSqrt2(w, s) ==
    LET W == Abs(w)
        S == Abs(s)
    IN  IF w = 0 THEN 0
        ELSE IF (w > 0) = (s > 0)
        THEN CHOOSE n \in 0..W : /\ 2 * n * n * S * S >= W * W
                                 /\ \A k \in 0..(n - 1) : 2 * k * k * S * S < W * W
        ELSE -(CHOOSE n \in 0..W : /\ 2 * n * n * S * S <= W * W
                                   /\ \A k \in (n + 1)..W : 2 * k * k * S * S > W * W)

\* Pong._clean_param; sample_interval defaults to 1/400 s = 1 tick
PongRequired == {"num_term", "width", "height", "spacing", "velocity"}

PongCleanParam(kw) ==
    LET cp == SkyCleanParam(TRUE, kw)
    IN  IF cp.err # "none" THEN cp
        ELSE IF ~(PongRequired \subseteq DOMAIN cp.kw) THEN [err |-> "KeyError", kw |-> kw]
        ELSE [err |-> "none",
              kw |-> Put(Put(cp.kw, "angle", Get(cp.kw, "angle", 0)),
                         "sample_interval", Get(cp.kw, "sample_interval", 1))]

\* a wrong parity step: the counts are left as they are
ParityStepSkip(x, y) == <<x, y>>

\* the parity step of Pong._generate_scan: <<x_numvert, y_numvert>>
ParityStep(x, y) ==
    IF x % 2 = y % 2
    THEN IF x >= y THEN <<x, y + 1>> ELSE <<x + 1, y>>
    ELSE <<x, y>>

\* a wrong choice of the count to grow: always x_numvert
MostIndexFirst(nv) == 1

\* num_vert.index(max(x_numvert, y_numvert)), indices from 1; the counts
\* differ after the parity step, so least_i is the other index, 3 - most_i
MostIndex(nv) == IF nv[1] >= nv[2] THEN 1 ELSE 2

\* vavg = velocity/sqrt(2), so period = x*y*sqrt(2)*s*2/vavg = 4*x*y*s/v and
\* pongcount = ceil(period/sample_interval): the values it can take.  The
\* period is a product and quotient of floats that hold sqrt(2) rounded, so
\* where 4*x*y*s/(v*dt) is a whole number other than 0 the quotient lands on
\* it or next to it, and the ceiling is that number or the next one
PongCount(x, y, s, v, dt) ==
    LET n == 4 * x * y * s
        d == v * dt
    IN  IF n # 0 /\ n % Abs(d) = 0 THEN {TruncDiv(n, d), TruncDiv(n, d) + 1} ELSE {CeilDiv(n, d)}

\* Pong._fourier_expansion(num_term, amp, t_count, peri) with
\* amp = c*sqrt(2)*s/2 and peri = c*sqrt(2)*s*2/vavg = 4*c*s/v for a vertex
\* count c: the phase b*n*t_count is n*t_count*v/(4*c*s) turns, and
\* a = 8*amp/pi**2 = 0.5732*c*s.  The position is in 1/1000 angular unit.
RECURSIVE FourierSum(_, _, _, _)
FourierSum(n, N, num, den) ==
    IF n > N THEN 0
    ELSE LET phase == (((n * num) % den) * 360000) \div den
             c == IF ((n - 1) \div 2) % 2 = 0 THEN 1 ELSE -1
         IN  (c * Sin(phase)) \div (n * n) + FourierSum(n + 2, N, num, den)

\* the expansion read one tick late
FourierExpansionLate(num_term, cs, v, t_count) ==
    LET N == num_term * 2 - 1
        den == 4 * cs
        num == (t_count + 1) * v
        pos == IF den > 0 THEN FourierSum(1, N, num, den) ELSE FourierSum(1, N, -num, -den)
    IN  (573 * cs * pos) \div 10000

FourierExpansion(num_term, cs, v, t_count) ==
    LET N == num_term * 2 - 1
        den == 4 * cs
        num == t_count * v
        pos == IF den > 0 THEN FourierSum(1, N, num, den) ELSE FourierSum(1, N, -num, -den)
    IN  (573 * cs * pos) \div 10000

\* the sample loop of Pong._generate_scan for pongcount samples, angle in degrees
PongData(p, x, y, pongcount) ==
    LET dt == p["sample_interval"]
        cosa == Cos(1000 * p["angle"])
        sina == Sin(1000 * p["angle"])
        x_coord1 == [i \in 1..pongcount |->
            FourierExpansion(p["num_term"], x * p["spacing"], p["velocity"], (i - 1) * dt)]
        y_coord1 == [i \in 1..pongcount |->
            FourierExpansion(p["num_term"], y * p["spacing"], p["velocity"], (i - 1) * dt)]
    IN  [time_offset |-> [i \in 1..pongcount |-> (i - 1) * dt],
         x_coord |-> [i \in 1..pongcount |-> (x_coord1[i] * cosa - y_coord1[i] * sina) \div 10000],
         y_coord |-> [i \in 1..pongcount |-> (x_coord1[i] * sina + y_coord1[i] * cosa) \div 10000]]

\* Pong.__init__ up to the call of _generate_scan: the dictionary handed to
\* _clean_param and what is left in the caller's dictionary
PongMerge(has_json, json, kw) ==
    IF ~has_json THEN [err |-> "none", kw |-> kw, caller |-> json]
    ELSE IF Has(kw, "max_scan_duration") /\ ~Has(json, "num_repeat")
    THEN [err |-> "KeyError", kw |-> kw, caller |-> json]
    ELSE LET popped == IF Has(kw, "max_scan_duration") THEN Pop(json, "num_repeat") ELSE json
             merged == Update(popped, kw)
         IN  [err |-> "none", kw |-> merged, caller |-> merged]

-----------------------------------------------------------------------------
(* Daisy *)

Fix == 10 * 10    \* fixed-point units per angular unit

DaisyRequired == {"velocity", "start_acc", "R0", "Rt", "Ra", "T"}

\* Daisy._clean_param: SkyPattern._clean_param is not called, and keys other
\* than the eight of a Daisy stay in the dictionary
DaisyCleanParam(kw) ==
    IF ~(DaisyRequired \subseteq DOMAIN kw) THEN [err |-> "KeyError", kw |-> kw]
    ELSE [err |-> "none",
          kw |-> Put(Put(kw, "sample_interval", Get(kw, "sample_interval", 1)),
                     "y_offset", Get(kw, "y_offset", 0))]

\* Daisy.__init__ up to the call of _generate_scan
DaisyMerge(has_json, json, kw) ==
    IF ~has_json THEN [err |-> "none", kw |-> kw, caller |-> json]
    ELSE LET merged == Update(json, kw)
         IN  [err |-> "none", kw |-> merged, caller |-> merged]

\* the locals of Daisy._generate_scan before the loop
DaisyLocals(p) ==
    [step |-> 0, N |-> TruncDiv(p["T"], p["sample_interval"]),
     s0 |-> p["velocity"], speed |-> 0,
     x |-> 0, y |-> Fix * p["y_offset"], vx |-> Fix, vy |-> 0,
     x_coord |-> <<>>, y_coord |-> <<>>, branch |-> "none"]

\* a ramp without the cap
RampUncapped(speed, start_acc, dt, s0) == speed + start_acc * dt

\* speed += start_acc*dt; if speed >= s0: speed = s0
Ramp(speed, start_acc, dt, s0) ==
    IF speed + start_acc * dt >= s0 THEN s0 ELSE speed + start_acc * dt

\* r < R0, with r*r = r2 in fixed point
Inside(r2, R0) == R0 > 0 /\ r2 < Fix * Fix * R0 * R0

\* (-xn*vx - yn*vy) > sqrt(1 - Ra*Ra/r/r), for r > 0 and Ra <= r: both sides
\* times r, squared
AimsAtCentre(l, r2, Ra) ==
    LET inward == -(l.x * l.vx + l.y * l.vy)
    IN  /\ inward > 0
        /\ (inward \div Fix) * (inward \div Fix) > r2 - Fix * Fix * Ra * Ra

\* a straight step that also turns the tangent by a quarter turn
StraightTurning(l, s, b) ==
    [l EXCEPT !.x = @ + l.vx * s, !.y = @ + l.vy * s, !.vx = -l.vy, !.vy = l.vx,
              !.branch = b]

\* the straight step
Straight(l, s, b) ==
    [l EXCEPT !.x = @ + l.vx * s, !.y = @ + l.vy * s, !.branch = b]

\* the curved step: series expansion in the step length s, for Rt # 0
Curved(l, s, Rt) ==
    LET left == (-l.x * l.vy + l.y * l.vx) > 0
        Nx == IF left THEN l.vy ELSE -l.vy
        Ny == IF left THEN -l.vx ELSE l.vx
        along(v, n) == TruncDiv((6 * s * Rt * Rt - s * s * s) * v, 6 * Rt * Rt)
                       + TruncDiv(s * s * n, 2 * Rt)
        turn(v, n) == TruncDiv(-s * s * v, 2 * Rt * Rt)
                      + TruncDiv((6 * s * Rt * Rt + s * s * s) * n, 6 * Rt * Rt * Rt)
    IN  [l EXCEPT !.x = @ + along(l.vx, Nx), !.y = @ + along(l.vy, Ny),
                  !.vx = @ + turn(l.vx, Nx), !.vy = @ + turn(l.vy, Ny),
                  !.branch = "curved"]

\* one iteration of the loop of Daisy._generate_scan: the locals after it, or
\* the exception it raises
DaisyBody(p, l) ==
    LET dt == p["sample_interval"]
        speed == Ramp(l.speed, p["start_acc"], dt, l.s0)
        s == speed * dt
        r2 == l.x * l.x + l.y * l.y
        l1 == [l EXCEPT !.speed = speed]
        moved ==
            IF Inside(r2, p["R0"]) THEN [err |-> "none", l |-> Straight(l1, s, "inside")]
            \* x/r at r = 0: x is a Python float before the first step and
            \* division by zero raises; afterwards it is a numpy float, and
            \* the division gives nan, which no comparison satisfies
            ELSE IF r2 = 0 /\ l.step = 0 THEN [err |-> "ZeroDivisionError", l |-> l1]
            \* math.sqrt of a negative number
            ELSE IF Fix * Fix * p["Ra"] * p["Ra"] > r2 THEN [err |-> "ValueError", l |-> l1]
            ELSE IF r2 # 0 /\ AimsAtCentre(l1, r2, p["Ra"])
            THEN [err |-> "none", l |-> Straight(l1, s, "aimed")]
            ELSE [err |-> "none", l |-> Curved(l1, s, p["Rt"])]
    IN  IF moved.err # "none" THEN [err |-> moved.err, l |-> l]
        ELSE [err |-> "none",
              l |-> [moved.l EXCEPT !.step = @ + 1,
                                    !.x_coord = Append(@, moved.l.x),
                                    !.y_coord = Append(@, moved.l.y)]]

\* the DataFrame built at the end of Daisy._generate_scan: np.arange(0, T, dt)
\* has ceil(T/dt) entries (none if that is negative) and the coordinate arrays
\* have N; pandas refuses columns of different lengths
DaisyFrame(p, l) ==
    LET dt == p["sample_interval"]
        M == IF CeilDiv(p["T"], dt) > 0 THEN CeilDiv(p["T"], dt) ELSE 0
    IN  IF M # l.N THEN Raise("ValueError")
        ELSE Ok(p, [time_offset |-> [i \in 1..M |-> (i - 1) * dt],
                    x_coord |-> l.x_coord, y_coord |-> l.y_coord], 1)

-----------------------------------------------------------------------------
(* TelescopePattern: angles in millidegrees; a dictionary holds ra, dec and
   start_el in degrees, the start_ times in hours and the latitude of its
   location in millidegrees *)

FYST_LAT == -22986          \* latitude of FYST_LOC, millidegrees
SIDEREAL_TO_UT1 == 10027    \* times 10000
HourAngle == 15000          \* millidegrees per hour

\* math.acos of r/10000, for -10000 <= r <= 10000
Acos(r) ==
    IF r >= 10000 THEN 0
    ELSE IF r <= -10000 THEN 180000
    ELSE LET d  == CHOOSE k \in 0..179 : Cos(1000 * k) >= r /\ r > Cos(1000 * (k + 1))
             hi == Cos(1000 * d)
             lo == Cos(1000 * (d + 1))
         IN  1000 * d + (1000 * (hi - r)) \div (hi - lo)

\* math.asin of r/10000, for -10000 <= r <= 10000
Asin(r) == 90000 - Acos(r)

\* a/10000 rounded
Scale(a) == (a + 5000) \div 10000

\* num/den times 10000, for products num and den of two table values
Ratio(num, den) == TruncDiv(num, den \div 10000)

\* sin_alt of the nested function altitude: sin(dec)*sin(lat) + cos(dec)*cos(lat)*cos(ha)
SinAlt(dec, lat, ha) ==
    Scale(Sin(dec) * Sin(lat) + Scale(Cos(dec) * Cos(lat)) * Cos(ha))

\* TelescopePattern._clean_param
TelescopeCleanParam(kw) ==
    LET located == Put(kw, "location", Get(kw, "location", FYST_LAT))
    IN  IF Has(kw, "start_hrang") THEN located
        ELSE IF Has(kw, "start_datetime") THEN located
        ELSE IF Has(kw, "start_lst") THEN located
        ELSE IF Has(kw, "start_el") THEN Put(located, "moving_up", Get(kw, "moving_up", TRUE))
        ELSE located

\* a choice without the assertion
HourAngleChoiceSilent(moving_up, h, ha1_up, ha2_up) ==
    [err |-> "none",
     ha |-> IF (moving_up /\ ha2_up) \/ (~moving_up /\ ha1_up) THEN -h ELSE h]

\* a choice that takes the other candidate
HourAngleChoiceOther(moving_up, h, ha1_up, ha2_up) ==
    IF ha1_up = ha2_up THEN [err |-> "AssertionError", ha |-> 0]
    ELSE [err |-> "none",
          ha |-> IF (moving_up /\ ha2_up) \/ (~moving_up /\ ha1_up) THEN h ELSE -h]

\* assert(ha1_up != ha2_up), and the choice between start_hrang_rad and its negative
HourAngleChoice(moving_up, h, ha1_up, ha2_up) ==
    IF ha1_up = ha2_up THEN [err |-> "AssertionError", ha |-> 0]
    ELSE [err |-> "none",
          ha |-> IF (moving_up /\ ha2_up) \/ (~moving_up /\ ha1_up) THEN -h ELSE h]

\* the argument clipped into [-1, 1] instead of rejected
AcosArgumentClipped(alt, dec, lat) ==
    LET num == 10000 * Sin(alt) - Sin(dec) * Sin(lat)
        den == Cos(dec) * Cos(lat)
    IN  IF den \div 10000 = 0 THEN [ok |-> FALSE, c |-> 0]
        ELSE IF Abs(num) > Abs(den)
        THEN [ok |-> TRUE, c |-> IF (num > 0) = (den > 0) THEN 10000 ELSE -10000]
        ELSE [ok |-> TRUE, c |-> Ratio(num, den)]

\* the argument of math.acos in the start_el branch: defined, and times 10000
AcosArgument(alt, dec, lat) ==
    LET num == 10000 * Sin(alt) - Sin(dec) * Sin(lat)
        den == Cos(dec) * Cos(lat)
    IN  IF den \div 10000 = 0 \/ Abs(num) > Abs(den)
        THEN [ok |-> FALSE, c |-> 0]
        ELSE [ok |-> TRUE, c |-> Ratio(num, den)]

\* the candidate +h is moving up: altitude a degree later minus altitude now
Ha1Up(dec, lat, h) == Asin(SinAlt(dec, lat, h + 1000)) - Asin(SinAlt(dec, lat, h)) > 0

\* the candidate -h is moving up
Ha2Up(dec, lat, h) == Asin(SinAlt(dec, lat, -h + 1000)) - Asin(SinAlt(dec, lat, -h)) > 0

\* math.asin raises on a sine outside [-1, 1]
AsinDefined(dec, lat, ha) == Abs(SinAlt(dec, lat, ha)) <= 10000

\* the start_el branch of _get_lst and the alt branch of set_setting: the hour
\* angle for altitude alt at declination dec and latitude lat
StartHourAngle(alt, dec, lat, moving_up) ==
    LET a == AcosArgument(alt, dec, lat)
    IN  IF ~a.ok THEN [err |-> "ValueError", ha |-> 0]
        ELSE LET h == Acos(a.c)
             IN  IF \E x \in {h, h + 1000, -h, -h + 1000} : ~AsinDefined(dec, lat, x)
                 THEN [err |-> "ValueError", ha |-> 0]
                 ELSE HourAngleChoice(moving_up, h, Ha1Up(dec, lat, h), Ha2Up(dec, lat, h))

\* the start of _get_lst: start_lst for self.param = p and the first offsets
\* x0, y0 (degrees) of the sky pattern, 0 without one
StartLst(p, x0, y0) ==
    IF Has(p, "start_datetime") THEN [err |-> "none", lst |-> HourAngle * p["start_datetime"]]
    ELSE IF Has(p, "start_hrang")
    THEN [err |-> "none", lst |-> HourAngle * p["start_hrang"] + 1000 * x0 + 1000 * p["ra"]]
    ELSE IF Has(p, "start_lst") THEN [err |-> "none", lst |-> HourAngle * p["start_lst"]]
    ELSE IF Has(p, "start_el")
    THEN LET c == StartHourAngle(1000 * p["start_el"], 1000 * (p["dec"] + y0),
                                 p["location"], p["moving_up"])
         IN  [err |-> c.err, lst |-> c.ha + 1000 * x0 + 1000 * p["ra"]]
    ELSE [err |-> "TypeError", lst |-> 0]

\* the return of _get_lst: time_offset t (in 1/u second) as sidereal angle, plus start_lst
LstColumn(t, u, start_lst) ==
    [i \in 1..Len(t) |->
        start_lst + FloorDiv(t[i] * (HourAngle \div 600) * SIDEREAL_TO_UT1, 60000 * u)]

\* one sample of _from_sky_pattern: <<az, alt>>
Horizontal(ha, dec, lat) ==
    LET sa == SinAlt(dec, lat, ha)
    IN  IF Abs(sa) > 10000 THEN <<NaN, NaN>>
        ELSE LET alt == Asin(sa)
                 num == 10000 * Sin(dec) - Sin(alt) * Sin(lat)
                 den == Cos(alt) * Cos(lat)
                 c   == IF den \div 10000 = 0
                        THEN (IF num > 0 THEN 10000 ELSE IF num < 0 THEN -10000 ELSE 0)
                        ELSE Ratio(num, den)
                 az  == Acos(c)
             IN  <<IF Sin(ha) > 0 THEN 360000 - az ELSE az, alt>>

\* TelescopePattern._from_sky_pattern: <<az, alt>> of every sample
FromSkyPattern(p, sky, lst) ==
    [i \in 1..Len(lst) |->
        Horizontal(lst[i] - 1000 * (sky.x_coord[i] + p["ra"]),
                   1000 * (sky.y_coord[i] + p["dec"]), p["location"])]

\* a window around the first azimuth as given
NormAngleRaw(az) ==
    IF az = <<>> THEN <<>>
    ELSE IF az[1] = NaN THEN [i \in 1..Len(az) |-> NaN]
    ELSE LET lowest_az == az[1] - 180000
         IN  [i \in 1..Len(az) |->
                 IF az[i] = NaN THEN NaN ELSE ((az[i] - lowest_az) % 360000) + lowest_az]

\* TelescopePattern._norm_angle
NormAngle(az) ==
    IF az = <<>> THEN <<>>
    ELSE IF az[1] = NaN THEN [i \in 1..Len(az) |-> NaN]
    ELSE LET lowest_az == (az[1] % 360000) - 180000
         IN  [i \in 1..Len(az) |->
                 IF az[i] = NaN THEN NaN ELSE ((az[i] - lowest_az) % 360000) + lowest_az]

\* alt_coord % 360
AltMod(alt) == [i \in 1..Len(alt) |-> IF alt[i] = NaN THEN NaN ELSE alt[i] % 360000]

NoTelescope == [time_offset |-> <<>>, lst |-> <<>>, az_coord |-> <<>>, alt_coord |-> <<>>]

TelescopeRaise(e) ==
    [err |-> e, param |-> EmptyDict, data |-> NoTelescope, unit |-> 1, sample_interval |-> 0]

\* TelescopePattern.__init__ for module = 'boresight' and a SkyPattern sky
\* whose times are in 1/sky.unit second, after _clean_param gave p, _get_lst
\* the column lst and _from_sky_pattern the samples h
TelescopeFromSky(sky, p, lst, h) ==
    [err |-> "none", param |-> p, unit |-> sky.unit,
     sample_interval |-> sky.param["sample_interval"],
     data |-> [time_offset |-> sky.data.time_offset, lst |-> lst,
               az_coord |-> NormAngle([i \in 1..Len(h) |-> h[i][1]]),
               alt_coord |-> AltMod([i \in 1..Len(h) |-> h[i][2]])]]

\* TelescopePattern.__init__ for module = 'boresight' and horizontal data d:
\* time_offset in seconds, az_coord and alt_coord in degrees and lst in hours,
\* after _clean_param gave p and the column lst was read or computed.
\* Times are stored in 1/n second, n the number of intervals.
TelescopeFromData(d, p, lst) ==
    LET iv == Diff(d.time_offset)
        n  == IF Len(iv) = 0 THEN 1 ELSE Len(iv)
    IN  IF ~IntervalConstant(iv) THEN TelescopeRaise("ValueError")
        ELSE [err |-> "none", param |-> p, unit |-> n, sample_interval |-> SumSeq(iv),
              data |-> [time_offset |-> [i \in 1..Len(d.time_offset) |-> n * d.time_offset[i]],
                        lst |-> lst,
                        az_coord |-> NormAngle([i \in 1..Len(d.az_coord) |-> 1000 * d.az_coord[i]]),
                        alt_coord |-> AltMod([i \in 1..Len(d.alt_coord) |-> 1000 * d.alt_coord[i]])]]

\* math.sqrt of a natural number, rounded down (Newton iteration from x)
RECURSIVE SqrtFrom(_, _)
SqrtFrom(n, x) ==
    LET y == (x + n \div x) \div 2
    IN  IF y >= x THEN x ELSE SqrtFrom(n, y)

Sqrt(n) == IF n <= 0 THEN 0 ELSE SqrtFrom(n, n)

\* np.arctan2 of s and c (any common scale), in (-180, 180] degrees
Atan2(s, c) ==
    IF s = 0 /\ c = 0 THEN 0
    ELSE LET r == Sqrt(s * s + c * c)
             a == Acos(IF r = 0 THEN 0
                       ELSE IF Abs(c) >= r THEN (IF c > 0 THEN 10000 ELSE -10000)
                       ELSE (10000 * c) \div r)
         IN  IF s < 0 THEN -a ELSE a

\* func of _transform_to_boresight, times 10000:
\* sin(alt_0)*cos(dist) + sin(dist)*cos(alt_0)*sin(theta + alt_0) - sin(alt_1)
BoresightFunc(alt_0, alt_1, dist, theta) ==
    Scale(Sin(alt_0) * Cos(dist)) + Scale(Scale(Sin(dist) * Cos(alt_0)) * Sin(theta + alt_0))
        - Sin(alt_1)

\* the roots root_scalar can return for the bracket [-pi/2, pi/2]: an end of
\* the bracket where func is 0, or a crossing of 0, located to a degree and
\* interpolated; empty when func has one sign at both ends (ValueError)
RootScalar(alt_1, dist, theta) ==
    LET f(a) == BoresightFunc(a, alt_1, dist, theta)
        lo == f(-90000)
        hi == f(90000)
    IN  IF (lo > 0 /\ hi > 0) \/ (lo < 0 /\ hi < 0) THEN {}
        ELSE IF lo = 0 THEN {-90000}
        ELSE IF hi = 0 THEN {90000}
        ELSE {1000 * k + (1000 * Abs(f(1000 * k))) \div (Abs(f(1000 * k)) + Abs(f(1000 * (k + 1)))) :
                 k \in {j \in (-90)..89 :
                           \/ f(1000 * j) < 0 /\ f(1000 * (j + 1)) >= 0
                           \/ f(1000 * j) > 0 /\ f(1000 * (j + 1)) <= 0}}

\* a solve that keeps the guess it was given
ColdStart(guess, a0) == guess

\* guess = a0 after a solve that returned a0
WarmStart(guess, a0) == a0

\* product of three and of four table values, times 10000
Mul3(a, b, c) == Scale(Scale(a * b) * c)

Mul4(a, b, c, d) == Scale(Mul3(a, b, c) * d)

\* the azimuth of one sample in _transform_to_boresight: cos_diff_az0 clipped
\* into [-1, 1], arccos, the sign from the mask, az0 = az1 - diff_az0
ToBoresightAz(az1, alt1, alt0, dist, theta) ==
    LET num  == 10000 * Cos(dist) - Sin(alt0) * Sin(alt1)
        den  == Cos(alt0) * Cos(alt1)
        c    == IF den \div 10000 = 0
                THEN (IF num > 0 THEN 10000 ELSE IF num < 0 THEN -10000 ELSE 0)
                ELSE IF Abs(num) > Abs(den)
                THEN (IF (num > 0) = (den > 0) THEN 10000 ELSE -10000)
                ELSE Ratio(num, den)
        diff == Acos(c)
        mask == theta > -alt0 + 90000 /\ theta < -alt0 + 270000
    IN  az1 - (IF mask THEN -diff ELSE diff)

\* the return of _transform_to_boresight once alt0 is solved
ToBoresightReturn(az1, alt1, alt0, dist, theta) ==
    [az_coord |-> NormAngle([i \in 1..Len(az1) |->
                                ToBoresightAz(az1[i], alt1[i], alt0[i], dist, theta)]),
     alt_coord |-> AltMod(alt0)]

\* alt1 of one sample in _transform_from_boresight
FromBoresightAlt(alt0, dist, theta) ==
    LET x == Scale(Sin(alt0) * Cos(dist)) + Mul3(Sin(dist), Cos(alt0), Sin(theta + alt0))
    IN  IF Abs(x) > 10000 THEN NaN ELSE Asin(x)

\* az1 of one sample in _transform_from_boresight: arctan2 of sin_az1 and
\* cos_az1, whose common factor 1/cos(alt1) is positive
FromBoresightAz(az0, alt0, dist, theta) ==
    LET sin_az1 == Mul3(Cos(alt0), Sin(az0), Cos(dist))
                     + Mul3(Cos(az0), Cos(theta + alt0), Sin(dist))
                     - Mul4(Sin(alt0), Sin(az0), Sin(dist), Sin(theta + alt0))
        cos_az1 == Mul3(Cos(alt0), Cos(az0), Cos(dist))
                     - Mul3(Sin(az0), Cos(theta + alt0), Sin(dist))
                     - Mul4(Sin(alt0), Cos(az0), Sin(dist), Sin(theta + alt0))
    IN  Atan2(sin_az1, cos_az1)

\* TelescopePattern._transform_from_boresight
TransformFromBoresight(az0, alt0, dist, theta) ==
    LET alt1 == [i \in 1..Len(alt0) |-> FromBoresightAlt(alt0[i], dist, theta)]
    IN  [az_coord |-> NormAngle([i \in 1..Len(az0) |->
                                    IF alt1[i] = NaN THEN NaN
                                    ELSE FromBoresightAz(az0[i], alt0[i], dist, theta)]),
         alt_coord |-> AltMod(alt1)]

\* the differences without the last one-sided one
CentralDiffOpen(a, h) ==
    [i \in 1..(Len(a) - 1) |->
        IF i = 1 THEN <<a[2] - a[1], h>> ELSE <<a[i + 1] - a[i - 1], 2 * h>>]

\* forward differences at every sample but the last
CentralDiffForward(a, h) ==
    [i \in 1..Len(a) |->
        IF i = Len(a) THEN <<a[Len(a)] - a[Len(a) - 1], h>> ELSE <<a[i + 1] - a[i], h>>]

\* ScanPattern._central_diff for self.sample_interval = h: every entry of
\* new_a as the pair <<numerator, denominator>> of its quotient
CentralDiff(a, h) ==
    [i \in 1..Len(a) |->
        IF i = 1 THEN <<a[2] - a[1], h>>
        ELSE IF i = Len(a) THEN <<a[Len(a)] - a[Len(a) - 1], h>>
        ELSE <<a[i + 1] - a[i - 1], 2 * h>>]

\* _central_diff(a) in units of 1/(2h): the entries of new_a times 2h
Differentiate(a) ==
    LET d == CentralDiff(a, 1)
    IN  [i \in 1..Len(d) |-> (2 * d[i][1]) \div d[i][2]]

\* ScanPattern.set_setting, the columns written from the horizontal
\* coordinates obs: velocities in units of 1/(2h), accelerations of 1/(2h)^2
\* and jerks of 1/(2h)^3
SettingColumns(az, alt) ==
    LET az_vel  == Differentiate(az)
        alt_vel == Differentiate(alt)
        az_acc  == Differentiate(az_vel)
        alt_acc == Differentiate(alt_vel)
    IN  [az_coord |-> az, alt_coord |-> alt,
         az_vel |-> az_vel, alt_vel |-> alt_vel,
         az_acc |-> az_acc, alt_acc |-> alt_acc,
         az_jerk |-> Differentiate(az_acc),
         alt_jerk |-> Differentiate(az_acc)]

\* ScanPattern.set_setting up to time0: setting_param, with time0 held as the
\* sidereal angle ha + ra it is computed from (alt branch) or as the datetime
SetSetting(kw) ==
    LET lat == Get(kw, "location", FYST_LAT)
        sp  == [k \in {"ra", "dec"} |-> kw[k]]
    IN  IF Has(kw, "alt")
        THEN LET c == StartHourAngle(1000 * kw["alt"], 1000 * kw["dec"], lat,
                                     Get(kw, "moving_up", TRUE))
             IN  IF c.err # "none" THEN [err |-> c.err, param |-> EmptyDict]
                 ELSE [err |-> "none",
                       param |-> Put(Put(sp, "alt", kw["alt"]), "time0", c.ha + 1000 * kw["ra"])]
        ELSE IF Has(kw, "datetime")
        THEN [err |-> "none", param |-> Put(sp, "time0", HourAngle * kw["datetime"])]
        ELSE [err |-> "ValueError", param |-> EmptyDict]

-----------------------------------------------------------------------------
(* Inputs *)

Intervals == ((BaseStep - MaxJitter)..(BaseStep + MaxJitter)) \cup {0, -BaseStep}
StartTimes == {0, BaseStep \div 2, -2 * BaseStep}
Paths == {<<0, 0>>, <<1, 2>>}     \* <<x_coord, y_coord>> slope per sample

\* a trajectory of len samples starting at t0 with the given intervals
RECURSIVE Times(_, _)
Times(t0, iv) ==
    IF iv = <<>> THEN <<t0>> ELSE <<t0>> \o Times(t0 + Head(iv), Tail(iv))

InputData ==
    {EmptyData} \cup
    {[time_offset |-> Times(t0, iv),
      x_coord |-> [i \in 1..(Len(iv) + 1) |-> (i - 1) * p[1]],
      y_coord |-> [i \in 1..(Len(iv) + 1) |-> (i - 1) * p[2]]] :
        t0 \in StartTimes, p \in Paths,
        iv \in UNION {[1..n -> Intervals] : n \in 0..(MaxLen - 1)}}

NumRepeats == (-1)..MaxRepeat
MaxDurations == {j * BaseStep : j \in (-1)..MaxDurSteps}

\* the keyword sets that request repeats, and the one that does not
RepeatKwargs ==
    {EmptyDict}
    \cup {"num_repeat" :> nr : nr \in NumRepeats}
    \cup {"max_scan_duration" :> md : md \in MaxDurations}
    \cup {("num_repeat" :> nr) @@ ("max_scan_duration" :> md) :
             nr \in NumRepeats, md \in MaxDurations}

\* Pong inputs: the five required parameters, optional angle and
\* sample_interval, and repeat keywords, given as keywords or as param_json
\* plus overriding keywords
Sides == {-MaxSide, 0, 1, MaxSide}
Spacings == (-1)..MaxSpacing
Velocities == {-1, 0, MaxVelocity}
NumTerms == (-1)..MaxTerm

PongBase ==
    {[num_term |-> nt, width |-> w, height |-> h, spacing |-> sp, velocity |-> v] :
        nt \in NumTerms, w \in Sides, h \in Sides, sp \in Spacings, v \in Velocities}

PongOptional ==
    {EmptyDict, "sample_interval" :> 0, "sample_interval" :> 2, "angle" :> 30}

PongRepeats ==
    {EmptyDict, "num_repeat" :> 0, "num_repeat" :> 2,
     "max_scan_duration" :> MaxPongDuration, "max_scan_duration" :> 1,
     ("num_repeat" :> 2) @@ ("max_scan_duration" :> MaxPongDuration)}

JsonRepeats ==
    {EmptyDict, "num_repeat" :> 2, "max_scan_duration" :> MaxPongDuration}

PongInputs ==
    {[has_json |-> FALSE, json |-> EmptyDict, kwargs |-> b @@ o @@ r] :
        b \in PongBase, o \in PongOptional, r \in PongRepeats}
    \cup
    {[has_json |-> TRUE, json |-> b @@ o @@ jr, kwargs |-> r] :
        b \in PongBase, o \in PongOptional, jr \in JsonRepeats, r \in JsonRepeats}

\* every positive width and height up to MaxGrid and spacing up to
\* MaxGridSpacing, the other parameters fixed
PongGridInputs ==
    {[has_json |-> FALSE, json |-> EmptyDict,
      kwargs |-> [num_term |-> 1, width |-> w, height |-> h, spacing |-> sp,
                  velocity |-> 4 * MaxGrid * MaxGrid]] :
        w \in 1..MaxGrid, h \in 1..MaxGrid, sp \in 1..MaxGridSpacing}

\* Daisy inputs; the turn radius Rt is at least the longest step, so that the
\* series of the curved step stays near the circle it expands
DaisyBase ==
    {[velocity |-> v, start_acc |-> a, R0 |-> r0, Rt |-> rt, Ra |-> ra, T |-> t] :
        v \in 1..MaxSpeed, a \in 0..MaxSpeed, r0 \in {0, MaxRadius},
        rt \in {2 * MaxSpeed, 2 * MaxSpeed + 1}, ra \in {0, 1, MaxRadius + 1}, t \in 0..MaxT}

DaisyOptional ==
    {EmptyDict, "sample_interval" :> 2, "y_offset" :> 1}

DaisyRepeats ==
    {EmptyDict, "num_repeat" :> 2, "max_scan_duration" :> MaxPongDuration}

DaisyInputs ==
    {[has_json |-> FALSE, json |-> EmptyDict, kwargs |-> b @@ o @@ r] :
        b \in DaisyBase, o \in DaisyOptional, r \in DaisyRepeats}
    \cup
    {[has_json |-> TRUE, json |-> b @@ o, kwargs |-> r] :
        b \in DaisyBase, o \in DaisyOptional, r \in DaisyRepeats}

\* TelescopePattern inputs: sky patterns as SkyPattern builds them
SkyObjects ==
    {SkyPatternNew([time_offset |-> [i \in 1..len |-> (i - 1) * BaseStep],
                    x_coord |-> [i \in 1..len |-> x0 + i - 1],
                    y_coord |-> [i \in 1..len |-> y0 + 2 * (i - 1)]], FALSE, EmptyDict) :
        len \in 2..MaxLen, x0 \in {0, MaxOffset}, y0 \in {0, MaxOffset}}

\* horizontal data, with or without a column lst
HorizontalIntervals == ((BaseStep - MaxJitter)..(BaseStep + MaxJitter)) \cup {BaseStep - 3 * MaxJitter}

HorizontalData ==
    {[time_offset |-> Times(0, iv),
      az_coord |-> [i \in 1..(Len(iv) + 1) |-> az0 + 20 * i],
      alt_coord |-> [i \in 1..(Len(iv) + 1) |-> 45 + i],
      lst |-> [i \in 1..(Len(iv) + 1) |-> i]] :
        az0 \in {-30, 350},
        iv \in UNION {[1..n -> HorizontalIntervals] : n \in 0..(MaxLen - 1)}}

Elevations == {-90, -MaxOffset, 0, 30, 67, 90 - MaxOffset, 90}

\* every set of start-time bases, and start_el alone at every elevation with
\* and without moving_up
StartBases ==
    {dt @@ hr @@ ls @@ el :
        dt \in {EmptyDict, "start_datetime" :> 3},
        hr \in {EmptyDict, "start_hrang" :> 1},
        ls \in {EmptyDict, "start_lst" :> 2},
        el \in {EmptyDict, "start_el" :> 30}}
    \cup {"start_el" :> e : e \in Elevations}
    \cup {("start_el" :> e) @@ ("moving_up" :> m) : e \in Elevations, m \in BOOLEAN}

Targets ==
    {("ra" :> 30) @@ ("dec" :> dec) @@ loc :
        dec \in {0, -23, 30}, loc \in {EmptyDict, "location" :> 0}}

TelescopeInputs ==
    {[kind |-> "sky", sky |-> sky, has_lst |-> FALSE, kwargs |-> t @@ b] :
        sky \in SkyObjects, t \in Targets, b \in StartBases}
    \cup
    {[kind |-> "data", sky |-> d, has_lst |-> l, kwargs |-> ("ra" :> 30) @@ ("dec" :> 0) @@ b] :
        d \in HorizontalData, l \in BOOLEAN,
        b \in {EmptyDict, "start_lst" :> 2, "start_el" :> 30}}

\* set_setting inputs
SettingInputs ==
    {("ra" :> 30) @@ ("dec" :> dec) @@ loc @@ basis @@ up :
        dec \in {0, -23, 30}, loc \in {EmptyDict, "location" :> 0},
        basis \in {EmptyDict, "datetime" :> 3} \cup {"alt" :> e : e \in Elevations},
        up \in {EmptyDict, "moving_up" :> TRUE, "moving_up" :> FALSE}}

\* the horizontal coordinates obs.az.deg and obs.alt.deg that astropy returns
\* to set_setting
ObsInputs ==
    {[az |-> az, alt |-> alt] :
        az \in [1..(MaxLen + 1) -> {0, MaxValue}],
        alt \in {[i \in 1..(MaxLen + 1) |-> 0],
                 [i \in 1..(MaxLen + 1) |-> MaxValue * (i % 2)]}}

\* inputs of the transforms: azimuth and altitude series in degrees and a
\* module location (dist, theta) as _true_module_loc returns it
Altitudes == {-10, 45, 90 - MaxDist, 89}

ModuleLocs == {<<0, 0>>, <<2, 0>>, <<2, 90>>, <<MaxDist, 0>>, <<MaxDist, -135>>}

TransformInputs ==
    {[az |-> [i \in 1..Len(alt) |-> 1000 * (az0 + step * i)],
      alt |-> [i \in 1..Len(alt) |-> 1000 * alt[i]],
      dist |-> 1000 * m[1], theta |-> 1000 * m[2]] :
        az0 \in {-50, 330}, step \in {20, 170},
        alt \in UNION {[1..n -> Altitudes] : n \in 2..MaxLen},
        m \in ModuleLocs}

\* inputs of _central_diff: a series of at least two samples and the sample
\* interval, in ticks
DiffInputs ==
    {[a |-> a, h |-> h] :
        a \in UNION {[1..n -> {-MaxValue, 0, MaxValue}] : n \in 2..(MaxLen + 1)},
        h \in {1, BaseStep}}

-----------------------------------------------------------------------------
(* State machine: one constructor call per behaviour *)

Init ==
    /\ pc = "new"
    /\ cls = "none"
    /\ args = EmptyDict
    /\ param = EmptyDict
    /\ data = EmptyData
    /\ unit = 1
    /\ caller_dict = EmptyDict
    /\ num_vert = <<0, 0>>
    /\ most_i = 1
    /\ daisy = EmptyDict
    /\ sample_interval = 0
    /\ solve = EmptyDict
    /\ err = "none"

\* the constructor returns or raises: result r
Finish(r) ==
    /\ pc' = "done"
    /\ param' = r.param
    /\ data' = r.data
    /\ unit' = r.unit
    /\ err' = r.err

\* SkyPattern(data, repeatable, **kwargs)
SkyPatternInit ==
    /\ pc = "new"
    /\ \E d \in InputData, repeatable \in BOOLEAN, kw \in RepeatKwargs :
          /\ cls' = "SkyPattern"
          /\ args' = [data |-> d, repeatable |-> repeatable, kwargs |-> kw]
          /\ Finish(SkyPatternNew(d, repeatable, kw))
    /\ UNCHANGED <<caller_dict, num_vert, most_i, daisy, sample_interval, solve>>

\* Pong(param_json, **kwargs) up to the while loop of _generate_scan
PongStart(in) ==
    /\ cls' = "Pong"
    /\ args' = in
    /\ LET m  == PongMerge(in.has_json, in.json, in.kwargs)
           cp == PongCleanParam(m.kw)
       IN  /\ caller_dict' = m.caller
           /\ IF m.err # "none" THEN Finish(Raise(m.err)) /\ UNCHANGED <<num_vert, most_i>>
              ELSE IF cp.err # "none" THEN Finish(Raise(cp.err)) /\ UNCHANGED <<num_vert, most_i>>
              ELSE IF cp.kw["spacing"] = 0
              \* width/0.0 is inf or nan, and math.ceil raises on it
              THEN Finish(Raise(IF cp.kw["width"] = 0 THEN "ValueError" ELSE "OverflowError"))
                   /\ UNCHANGED <<num_vert, most_i>>
              ELSE LET nv == ParityStep(CeilSqrt2(cp.kw["width"], cp.kw["spacing"]),
                                        CeilSqrt2(cp.kw["height"], cp.kw["spacing"]))
                   IN  /\ pc' = "while"
                       /\ param' = cp.kw
                       /\ num_vert' = nv
                       /\ most_i' = MostIndex(nv)
                       /\ UNCHANGED <<data, unit, err>>
    /\ UNCHANGED <<daisy, sample_interval, solve>>

\* the while loop of Pong._generate_scan: one iteration
PongLoop ==
    /\ pc = "while"
    /\ GCD(num_vert[most_i], num_vert[3 - most_i]) # 1
    /\ num_vert[most_i] < MaxVert
    /\ num_vert' = [num_vert EXCEPT ![most_i] = @ + 2]
    /\ UNCHANGED <<pc, cls, args, param, data, unit, caller_dict, most_i, daisy,
                    sample_interval, err, solve>>

\* Pong._generate_scan after the while loop, and _repeat_scan
PongFinish ==
    /\ pc = "while"
    /\ GCD(num_vert[most_i], num_vert[3 - most_i]) = 1
    /\ LET x == num_vert[1]
           y == num_vert[2]
       IN  IF ~(GCD(x, y) = 1 /\ x % 2 # y % 2) THEN Finish(Raise("AssertionError"))
           \* period/sample_interval is inf or nan, and math.ceil raises on it
           ELSE IF param["velocity"] = 0 \/ param["sample_interval"] = 0
           THEN Finish(Raise(IF x * y = 0 THEN "ValueError" ELSE "OverflowError"))
           ELSE \E c \in PongCount(x, y, param["spacing"], param["velocity"],
                                   param["sample_interval"]) :
                \E d \in {PongData(param, x, y, c)} : Finish(RepeatScan(param, d, 1))
    /\ UNCHANGED <<cls, args, caller_dict, num_vert, most_i, daisy, sample_interval, solve>>

PongInit ==
    /\ pc = "new"
    /\ \E in \in PongInputs : PongStart(in)

PongGridInit ==
    /\ pc = "new"
    /\ \E in \in PongGridInputs : PongStart(in)

\* Daisy(param_json, **kwargs) up to the loop of _generate_scan
DaisyStart(in) ==
    /\ cls' = "Daisy"
    /\ args' = in
    /\ LET m  == DaisyMerge(in.has_json, in.json, in.kwargs)
           cp == DaisyCleanParam(m.kw)
       IN  /\ caller_dict' = m.caller
           /\ IF cp.err # "none" THEN Finish(Raise(cp.err)) /\ UNCHANGED daisy
              \* T/0.0 is inf or nan, and int raises on it
              ELSE IF cp.kw["sample_interval"] = 0
              THEN Finish(Raise(IF cp.kw["T"] = 0 THEN "ValueError" ELSE "OverflowError"))
                   /\ UNCHANGED daisy
              \* np.empty of a negative length
              ELSE IF TruncDiv(cp.kw["T"], cp.kw["sample_interval"]) < 0
              THEN Finish(Raise("ValueError")) /\ UNCHANGED daisy
              ELSE /\ pc' = "for"
                   /\ param' = cp.kw
                   /\ daisy' = DaisyLocals(cp.kw)
                   /\ UNCHANGED <<data, unit, err>>
    /\ UNCHANGED <<num_vert, most_i, sample_interval, solve>>

DaisyInit ==
    /\ pc = "new"
    /\ \E in \in DaisyInputs : DaisyStart(in)

\* one iteration of the loop of Daisy._generate_scan
DaisyStep ==
    /\ pc = "for"
    /\ daisy.step < daisy.N
    /\ \E b \in {DaisyBody(param, daisy)} :
          /\ daisy' = b.l
          /\ IF b.err # "none" THEN Finish(Raise(b.err))
             ELSE UNCHANGED <<pc, param, data, unit, err>>
    /\ UNCHANGED <<cls, args, caller_dict, num_vert, most_i, sample_interval, solve>>

\* the end of Daisy._generate_scan
DaisyFinish ==
    /\ pc = "for"
    /\ daisy.step = daisy.N
    /\ Finish(DaisyFrame(param, daisy))
    /\ UNCHANGED <<cls, args, caller_dict, num_vert, most_i, daisy, sample_interval, solve>>

\* TelescopePattern(data, **kwargs) with a SkyPattern: _clean_param, _get_lst,
\* _from_sky_pattern and the normalisation for module = 'boresight'
TelescopeSky(in) ==
    \E p \in {TelescopeCleanParam(in.kwargs)} :
    \E s \in {StartLst(p, in.sky.data.x_coord[1], in.sky.data.y_coord[1])} :
       IF s.err # "none" THEN Finish(TelescopeRaise(s.err)) /\ sample_interval' = 0
       ELSE \E lst \in {LstColumn(in.sky.data.time_offset, in.sky.unit, s.lst)} :
            \E h \in {FromSkyPattern(p, in.sky.data, lst)} :
            \E r \in {TelescopeFromSky(in.sky, p, lst, h)} :
               Finish(r) /\ sample_interval' = r.sample_interval

\* TelescopePattern(data, **kwargs) with horizontal data: _clean_param, lst
\* from the data or from _get_lst, the sample interval and the normalisation
TelescopeData(in) ==
    \E p \in {TelescopeCleanParam(in.kwargs)} :
    \E s \in {IF in.has_lst THEN [err |-> "none", lst |-> 0] ELSE StartLst(p, 0, 0)} :
       IF s.err # "none" THEN Finish(TelescopeRaise(s.err)) /\ sample_interval' = 0
       ELSE \E lst \in {IF in.has_lst
                        THEN [i \in 1..Len(in.sky.lst) |-> HourAngle * in.sky.lst[i]]
                        ELSE LstColumn(in.sky.time_offset, 1, s.lst)} :
            \E r \in {TelescopeFromData(in.sky, p, lst)} :
               Finish(r) /\ sample_interval' = r.sample_interval

TelescopeInit ==
    /\ pc = "new"
    /\ \E in \in TelescopeInputs :
          /\ cls' = "TelescopePattern"
          /\ args' = in
          /\ IF in.kind = "sky" THEN TelescopeSky(in) ELSE TelescopeData(in)
    /\ UNCHANGED <<caller_dict, num_vert, most_i, daisy, solve>>

\* ScanPattern.set_setting(**kwargs)
SetSettingCall ==
    /\ pc = "new"
    /\ \E kw \in SettingInputs :
          /\ cls' = "ScanPattern"
          /\ args' = kw
          /\ \E r \in {SetSetting(kw)} :
                /\ pc' = "done"
                /\ param' = r.param
                /\ err' = r.err
                /\ IF r.err = "none"
                   THEN \E obs \in ObsInputs : data' = SettingColumns(obs.az, obs.alt)
                   ELSE data' = data
    /\ UNCHANGED <<unit, caller_dict, num_vert, most_i, daisy, sample_interval, solve>>

\* TelescopePattern.__init__, instrument and module: az_coord and alt_coord of
\* the module become those of the boresight, by the transform or, for a
\* module at the boresight, by the normalisation alone
ModuleStart(az1, alt1, dist, theta) ==
    IF dist = 0 /\ theta = 0
    THEN /\ pc' = "done"
         /\ data' = [az_coord |-> NormAngle(az1), alt_coord |-> AltMod(alt1)]
         /\ UNCHANGED solve
    ELSE /\ pc' = "solve"
         /\ solve' = [az1 |-> az1, alt1 |-> alt1, dist |-> dist, theta |-> theta,
                      i |-> 1, bound |-> FALSE, a0 |-> 0, guess |-> alt1[1],
                      alt0 |-> [j \in 1..Len(alt1) |-> 0], is_array |-> TRUE]
         /\ UNCHANGED data

\* the boresight of a module path
ToBoresightInit ==
    /\ pc = "new"
    /\ \E in \in TransformInputs :
          /\ cls' = "to_boresight"
          /\ args' = in
          /\ ModuleStart(in.az, in.alt, in.dist, in.theta)
    /\ UNCHANGED <<param, unit, caller_dict, num_vert, most_i, daisy, sample_interval, err>>

\* one iteration of the loop of _transform_to_boresight: the root solve, its
\* except clause and the assignment alt0[i] = a0
ToBoresightStep ==
    /\ pc = "solve"
    /\ solve.i <= Len(solve.alt1)
    /\ \E roots \in {RootScalar(solve.alt1[solve.i], solve.dist, solve.theta)} :
          IF roots = {}
          THEN /\ solve' = [solve EXCEPT !.is_array = FALSE]
               /\ pc' = "done"
               /\ err' = IF solve.bound THEN "TypeError" ELSE "UnboundLocalError"
          ELSE /\ \E r \in roots :
                     solve' = [solve EXCEPT !.a0 = r, !.bound = TRUE,
                                            !.guess = WarmStart(@, r),
                                            !.alt0[solve.i] = r, !.i = @ + 1]
               /\ UNCHANGED <<pc, err>>
    /\ UNCHANGED <<cls, args, param, data, unit, caller_dict, num_vert, most_i, daisy,
                    sample_interval>>

\* _transform_to_boresight after the loop
ToBoresightFinish ==
    /\ pc = "solve"
    /\ solve.i > Len(solve.alt1)
    /\ pc' = "done"
    /\ data' = ToBoresightReturn(solve.az1, solve.alt1, solve.alt0, solve.dist, solve.theta)
    /\ UNCHANGED <<cls, args, param, unit, caller_dict, num_vert, most_i, daisy,
                    sample_interval, solve, err>>

\* view_module: the path of a module from the path of the boresight
FromBoresightInit ==
    /\ pc = "new"
    /\ \E in \in TransformInputs :
          /\ cls' = "from_boresight"
          /\ args' = in
          /\ data' = TransformFromBoresight(in.az, in.alt, in.dist, in.theta)
    /\ pc' = "done"
    /\ UNCHANGED <<param, unit, caller_dict, num_vert, most_i, daisy, sample_interval,
                    solve, err>>

\* the module path view_module returned, given back as the data of that module
RoundTrip ==
    /\ pc = "done"
    /\ cls = "from_boresight"
    /\ \A i \in 1..Len(data.alt_coord) : data.alt_coord[i] # NaN
    /\ cls' = "round_trip"
    /\ ModuleStart(data.az_coord, data.alt_coord, args.dist, args.theta)
    /\ UNCHANGED <<args, param, unit, caller_dict, num_vert, most_i, daisy,
                    sample_interval, err>>

\* ScanPattern._central_diff(a)
CentralDiffCall ==
    /\ pc = "new"
    /\ \E in \in DiffInputs :
          /\ cls' = "central_diff"
          /\ args' = in
          /\ data' = [new_a |-> CentralDiff(in.a, in.h)]
    /\ pc' = "done"
    /\ UNCHANGED <<param, unit, caller_dict, num_vert, most_i, daisy, sample_interval,
                    solve, err>>

Next ==
    \/ SkyPatternInit
    \/ PongInit \/ PongLoop \/ PongFinish
    \/ DaisyInit \/ DaisyStep \/ DaisyFinish
    \/ TelescopeInit
    \/ SetSettingCall
    \/ ToBoresightInit
    \/ ToBoresightStep
    \/ ToBoresightFinish
    \/ FromBoresightInit
    \/ RoundTrip
    \/ CentralDiffCall

Spec == Init /\ [][Next]_vars

\* Pong generation over the full grid of positive widths, heights and spacings
NextPong == PongGridInit \/ PongLoop \/ PongFinish

SpecPong == Init /\ [][NextPong]_vars

\* the while loop and the code after it run on once entered
SpecPongFair == SpecPong /\ WF_vars(PongLoop) /\ WF_vars(PongFinish)

-----------------------------------------------------------------------------
(* Properties *)

Done == pc = "done"
Built == pc = "done" /\ err = "none"

\* the dictionary Pong.__init__ hands to _clean_param
PongKw == PongMerge(args.has_json, args.json, args.kwargs).kw

\* C1: for every positive width, height and spacing, the vertex counts Pong
\* generation ends with are coprime and of opposite parity; the while loop
\* ends before the model's cap on the counts.
C1_CoprimeOppositeParity ==
    cls = "Pong" =>
        /\ Done => /\ GCD(num_vert[1], num_vert[2]) = 1
                   /\ num_vert[1] % 2 # num_vert[2] % 2
                   /\ err = "none"
        /\ pc = "while" => num_vert[most_i] < MaxVert

\* C1 witness: a generation whose while loop added to the larger count
C1_Witness ==
    /\ cls = "Pong" /\ Built
    /\ num_vert # ParityStep(CeilSqrt2(args.kwargs.width, args.kwargs.spacing),
                             CeilSqrt2(args.kwargs.height, args.kwargs.spacing))

\* the trajectory handed to SkyPattern is exactly uniform with a positive
\* step and does not start before time 0
UniformInput ==
    LET iv == Diff(args.data.time_offset)
    IN  /\ Len(iv) >= 1
        /\ args.data.time_offset[1] >= 0
        /\ iv[1] > 0
        /\ \A i \in 1..Len(iv) : iv[i] = iv[1]

\* C2: for a uniformly sampled period of length L and num_repeat >= 1 the tiler
\* returns L*num_repeat samples with the same constant step everywhere, also
\* across the boundaries between copies.
C2_SeamlessTiling ==
    (cls = "SkyPattern" /\ Built /\ UniformInput /\ param["num_repeat"] >= 1) =>
        LET L == Len(args.data.time_offset)
            h == unit * (args.data.time_offset[2] - args.data.time_offset[1])
        IN  /\ Len(data.time_offset) = L * param["num_repeat"]
            /\ \A j \in 1..(Len(data.time_offset) - 1) :
                   data.time_offset[j + 1] - data.time_offset[j] = h

\* floor(max_scan_duration / one_scan_duration) for a period of len samples
\* ending at time last with interval dt, or 0 where the quotient is undefined
Repeats(max, last, dt) ==
    IF last + dt = 0 THEN 0 ELSE FloorDiv(max, last + dt)

\* C3, SkyPattern part: with max_scan_duration alone on a repeatable pattern,
\* num_repeat = floor(max_scan_duration / (last time_offset + sample_interval)),
\* and below 1 the construction fails and builds nothing.
C3_Sky ==
    (cls = "SkyPattern" /\ Done /\ args.repeatable
        /\ Has(args.kwargs, "max_scan_duration") /\ ~Has(args.kwargs, "num_repeat")
        /\ IntervalConstant(Diff(args.data.time_offset))) =>
        LET t == args.data.time_offset
            n == Len(t) - 1
            k == Repeats(n * args.kwargs["max_scan_duration"], n * t[Len(t)], t[Len(t)] - t[1])
        IN  IF k >= 1
            THEN /\ err = "none"
                 /\ param["num_repeat"] = k
                 /\ Len(data.time_offset) = k * Len(t)
                 /\ ~Has(param, "max_scan_duration")
            ELSE err # "none" /\ data = EmptyData

\* C3, Pong part: the same for a generated period of one of the PongCount lengths
C3_Pong ==
    (cls = "Pong" /\ Done /\ err # "AssertionError" /\ args.json = caller_dict
        /\ Has(PongKw, "max_scan_duration") /\ ~Has(PongKw, "num_repeat")
        /\ PongRequired \subseteq DOMAIN PongKw
        /\ \A q \in {"spacing", "velocity"} : PongKw[q] # 0
        /\ Get(PongKw, "sample_interval", 1) # 0) =>
        LET dt == Get(PongKw, "sample_interval", 1)
        IN  \E count \in PongCount(num_vert[1], num_vert[2], PongKw["spacing"],
                                   PongKw["velocity"], dt) :
                LET k == Repeats(PongKw["max_scan_duration"], (count - 1) * dt, dt)
                IN  IF count >= 1 /\ k >= 1
                    THEN /\ err = "none"
                         /\ param["num_repeat"] = k
                         /\ Len(data.time_offset) = k * count
                    ELSE err # "none" /\ data = EmptyData

BothSupplied ==
    \/ /\ cls = "SkyPattern" /\ args.repeatable
       /\ {"num_repeat", "max_scan_duration"} \subseteq DOMAIN args.kwargs
    \/ /\ cls = "Pong"
       /\ {"num_repeat", "max_scan_duration"} \subseteq (DOMAIN args.kwargs \cup DOMAIN args.json)

BothReachCleanParam ==
    \/ /\ cls = "SkyPattern" /\ args.repeatable
       /\ {"num_repeat", "max_scan_duration"} \subseteq DOMAIN args.kwargs
    \/ /\ cls = "Pong"
       /\ \/ Has(args.kwargs, "num_repeat")
          \/ Has(args.json, "num_repeat") /\ ~Has(args.kwargs, "max_scan_duration")
       /\ Has(args.kwargs, "max_scan_duration") \/ Has(args.json, "max_scan_duration")
       /\ ~(args.has_json /\ Has(args.kwargs, "max_scan_duration") /\ ~Has(args.json, "num_repeat"))

C4_OverrideBuilt ==
    /\ cls = "Pong" /\ Built
    /\ args.has_json /\ Has(args.json, "num_repeat")
    /\ Has(args.kwargs, "max_scan_duration")

\* C6: a num_repeat below 1 given to a repeatable pattern is rejected; no
\* trajectory is built whose recorded num_repeat is less than 1.
C6_NumRepeatAtLeastOne ==
    (Built /\ cls \in {"SkyPattern", "Pong"}) => param["num_repeat"] >= 1

\* C8: a Pong with any of width, height, spacing, velocity or num_term <= 0
\* fails with a construction error; no trajectory is produced for it.
C8_NonPositiveRejected ==
    (cls = "Pong" /\ Done /\ PongRequired \subseteq DOMAIN PongKw
        /\ \E q \in PongRequired : PongKw[q] <= 0) => (err # "none" /\ data = EmptyData)

\* C8, the other way a non-positive parameter shows: the while loop of
\* _generate_scan never ends (smaller count 0, larger count odd and above 1)
C8_LoopEnds ==
    (cls = "Pong" /\ pc = "while") =>
        \/ GCD(num_vert[1], num_vert[2]) = 1
        \/ num_vert[3 - most_i] # 0

\* repeats were requested, by keyword or in param_json, from a pattern that is
\* not repeatable
RepeatsOnNonRepeatable ==
    \/ /\ cls = "SkyPattern" /\ ~args.repeatable
       /\ {"num_repeat", "max_scan_duration"} \cap DOMAIN args.kwargs # {}
    \/ /\ cls = "Daisy"
       /\ {"num_repeat", "max_scan_duration"} \cap (DOMAIN args.kwargs \cup DOMAIN args.json) # {}

\* C5: requesting repeats (num_repeat or max_scan_duration) on a non-repeatable
\* pattern, a SkyPattern built with repeatable=False or a Daisy, is a
\* construction error.
C5_NonRepeatableRejected == (Done /\ RepeatsOnNonRepeatable) => err # "none"

\* the same for a SkyPattern built with repeatable=False alone
C5_SkyRejected ==
    (Done /\ RepeatsOnNonRepeatable /\ cls = "SkyPattern") => err = "ValueError"

\* n*n times the variance of the intervals iv
VarianceN2(iv) == Len(iv) * SumSqSeq(iv) - SumSeq(iv) * SumSeq(iv)

\* std/mean of the intervals iv is a number or an infinity
RatioDefined(iv) == Len(iv) >= 1 /\ ~(SumSeq(iv) = 0 /\ VarianceN2(iv) = 0)

\* std/mean > 1%, for a defined ratio
RatioAbovePercent(iv) ==
    IF SumSeq(iv) > 0 THEN 10000 * VarianceN2(iv) > SumSeq(iv) * SumSeq(iv)
    ELSE SumSeq(iv) = 0

\* the horizontal data of a TelescopePattern reach the test of the sample
\* interval: lst is a column of the data or _get_lst succeeds
HorizontalChecked ==
    /\ cls = "TelescopePattern" /\ Done /\ args.kind = "data"
    /\ args.has_lst \/ StartLst(TelescopeCleanParam(args.kwargs), 0, 0).err = "none"

\* C7, SkyPattern part
C7_Sky ==
    (cls = "SkyPattern" /\ Done /\ RatioDefined(Diff(args.data.time_offset))) =>
        LET iv == Diff(args.data.time_offset)
        IN  IF RatioAbovePercent(iv) THEN err = "ValueError" /\ data = EmptyData
            ELSE args.kwargs = EmptyDict =>
                    /\ err = "none"
                    /\ param["sample_interval"] * Len(iv) = unit * SumSeq(iv)

\* C7, TelescopePattern part
C7_Telescope ==
    (HorizontalChecked /\ RatioDefined(Diff(args.sky.time_offset))) =>
        LET iv == Diff(args.sky.time_offset)
        IN  IF RatioAbovePercent(iv) THEN err = "ValueError" /\ data = NoTelescope
            ELSE /\ err = "none"
                 /\ sample_interval * Len(iv) = unit * SumSeq(iv)

\* C7: a trajectory whose sample intervals have std/mean above 1% is rejected
\* with an error, by SkyPattern and by TelescopePattern from horizontal data; at
\* 1% or below it is accepted and sample_interval is the mean interval.
C7_IntervalRatio == C7_Sky /\ C7_Telescope

\* C7 witness: horizontal data whose intervals differ, with ratio exactly 1%,
\* are accepted
C7_Witness ==
    /\ HorizontalChecked /\ err = "none"
    /\ LET iv == Diff(args.sky.time_offset)
       IN  /\ Len(iv) >= 2
           /\ 10000 * VarianceN2(iv) = SumSeq(iv) * SumSeq(iv)

\* the start-time bases among the keywords
Bases == {"start_datetime", "start_hrang", "start_lst", "start_el"} \cap DOMAIN args.kwargs

\* C9: a TelescopePattern built from a sky pattern with none of start_datetime,
\* start_hrang, start_lst, start_el, or with two or more of them, is a
\* construction error.
C9_ExactlyOneBasis ==
    (cls = "TelescopePattern" /\ Done /\ args.kind = "sky" /\ Cardinality(Bases) # 1)
        => err # "none"

\* the part of C9 about no basis at all
C9_NoBasisRejected ==
    (cls = "TelescopePattern" /\ Done /\ args.kind = "sky" /\ Bases = {})
        => err = "TypeError"

\* both candidates +h and -h match moving_up, or neither does, for altitude
\* alt at declination dec and latitude lat (millidegrees) where h is defined
Ambiguous(alt, dec, lat) ==
    LET a == AcosArgument(alt, dec, lat)
    IN  /\ a.ok
        /\ \A x \in {Acos(a.c), Acos(a.c) + 1000, -Acos(a.c), -Acos(a.c) + 1000} :
               AsinDefined(dec, lat, x)
        /\ Ha1Up(dec, lat, Acos(a.c)) = Ha2Up(dec, lat, Acos(a.c))

\* a TelescopePattern whose start comes from start_el
ElevationBasis ==
    /\ cls = "TelescopePattern" /\ Done
    /\ Bases = {"start_el"}
    /\ args.kind = "sky" \/ ~args.has_lst

\* declination of the first sample of the call, in degrees
FirstDec ==
    args.kwargs["dec"] + (IF args.kind = "sky" THEN args.sky.data.y_coord[1] ELSE 0)

\* C10: with the start-elevation basis, if both or neither of the candidates +h
\* and -h match the requested moving_up, the construction fails with an
\* error and builds nothing, h = 0 included; the same in set_setting.
C10_AmbiguousElevationRejected ==
    /\ (ElevationBasis /\ Ambiguous(1000 * args.kwargs["start_el"], 1000 * FirstDec,
                                     Get(args.kwargs, "location", FYST_LAT)))
          => (err = "AssertionError" /\ data = NoTelescope /\ param = EmptyDict)
    /\ (cls = "ScanPattern" /\ Done /\ Has(args, "alt")
          /\ Ambiguous(1000 * args["alt"], 1000 * args["dec"], Get(args, "location", FYST_LAT)))
          => (err = "AssertionError" /\ param = EmptyDict)

\* C10 witness: a start elevation reached only at h = 0, away from the equator
C10_Witness ==
    /\ ElevationBasis /\ err = "AssertionError"
    /\ FirstDec # 0
    /\ Acos(AcosArgument(1000 * args.kwargs["start_el"], 1000 * FirstDec,
                         Get(args.kwargs, "location", FYST_LAT)).c) = 0

\* both candidates move up: h = 180 degrees
C10_BothUp ==
    /\ ElevationBasis /\ err = "AssertionError"
    /\ Acos(AcosArgument(1000 * args.kwargs["start_el"], 1000 * FirstDec,
                         Get(args.kwargs, "location", FYST_LAT)).c) = 180000

\* a start elevation with one matching candidate builds
C10_Unambiguous == ElevationBasis /\ err = "none"

\* the elevation alt is not reached at declination dec and latitude lat
\* (millidegrees): |sin(alt) - sin(dec) sin(lat)| > |cos(dec) cos(lat)|
Unreachable(alt, dec, lat) ==
    Abs(10000 * Sin(alt) - Sin(dec) * Sin(lat)) > Abs(Cos(dec) * Cos(lat))

\* C11: with the start-elevation basis, an elevation that is not reached at the
\* declination and latitude (acos argument outside [-1, 1]) ends the
\* construction with ValueError and builds nothing: no start time is made
\* from a clipped argument.
C11_UnreachableElevationRejected ==
    (ElevationBasis /\ Unreachable(1000 * args.kwargs["start_el"], 1000 * FirstDec,
                                    Get(args.kwargs, "location", FYST_LAT)))
        => (err = "ValueError" /\ data = NoTelescope /\ param = EmptyDict)

\* C11 witness: start_el = -90 from a sky pattern, below the lowest elevation
\* of the target
C11_Witness ==
    /\ ElevationBasis /\ args.kind = "sky" /\ err = "ValueError"
    /\ args.kwargs["start_el"] = -90
    /\ Unreachable(1000 * args.kwargs["start_el"], 1000 * FirstDec,
                   Get(args.kwargs, "location", FYST_LAT))

\* a call of _transform_to_boresight that has ended
Solved == cls \in {"to_boresight", "round_trip"} /\ Done /\ solve # EmptyDict

\* the samples of that call whose root solve finds no bracketed root
Unbracketed ==
    {i \in 1..Len(solve.alt1) : RootScalar(solve.alt1[i], solve.dist, solve.theta) = {}}

\* C12: when the root solve of a sample finds no bracketed root, the
\* module-to-boresight transform still returns a series of full length, in
\* which that sample alone is NaN and every other sample is a root of its own
\* equation.
C12_FailedSolveMarksSample ==
    (Solved /\ Unbracketed # {})
        => /\ err = "none"
           /\ Len(data.alt_coord) = Len(solve.alt1)
           /\ \A i \in 1..Len(solve.alt1) :
                  IF i \in Unbracketed THEN data.alt_coord[i] = NaN
                  ELSE \E r \in RootScalar(solve.alt1[i], solve.dist, solve.theta) :
                          data.alt_coord[i] = r % 360000

\* what the code does instead: the call ends with an exception at the first
\* sample without a root, and returns nothing
C12_FailedSolveAborts ==
    (Solved /\ Unbracketed # {})
        => /\ err \in {"TypeError", "UnboundLocalError"}
           /\ ~solve.is_array
           /\ solve.i \in Unbracketed /\ \A j \in Unbracketed : j >= solve.i
           /\ err = "UnboundLocalError" <=> solve.i = 1

\* a failed solve after a solved sample, with a solvable sample left
C12_Aborted ==
    /\ cls = "to_boresight" /\ Solved /\ err = "TypeError"
    /\ solve.i = 2 /\ Unbracketed = {2} /\ Len(solve.alt1) = 3

\* a call that only normalises: the data of a module at the boresight
Normalised ==
    /\ cls = "to_boresight" /\ Done /\ args.dist = 0 /\ args.theta = 0

\* every sample of out is congruent to its sample of az modulo 360 degrees
\* and lies in [f - 180, f + 180)
InWindow(az, out, f) ==
    /\ Len(out) = Len(az)
    /\ \A i \in 1..Len(az) :
          /\ (out[i] - az[i]) % 360000 = 0
          /\ f - 180000 <= out[i] /\ out[i] < f + 180000

\* C13 as stated: the normalised azimuths have the length of the input, are
\* congruent to it modulo 360 and lie in [f - 180, f + 180), f the first
\* sample of the input.
C13_WindowAroundFirst == Normalised => InWindow(args.az, data.az_coord, args.az[1])

\* C13 amended: the same with f the first sample reduced into [0, 360), the
\* one window serving the whole series.
C13_WindowAroundReducedFirst ==
    Normalised => /\ InWindow(args.az, data.az_coord, args.az[1] % 360000)
                  /\ data.az_coord[1] = args.az[1] % 360000

\* C13 witness: a series that starts below 0 and leaves the window of its
\* reduced first sample
C13_Witness ==
    /\ Normalised
    /\ args.az[1] < 0
    /\ \E i \in 1..Len(args.az) : data.az_coord[i] # args.az[i] % 360000

\* C14: two consecutive normalised azimuths never differ by more than the two
\* input azimuths do.
C14_NoWrapJump ==
    Normalised =>
        \A i \in 1..(Len(args.az) - 1) :
            Abs(data.az_coord[i + 1] - data.az_coord[i]) <= Abs(args.az[i + 1] - args.az[i])

\* a series whose samples are all equal
ConstantSeries(a) == \A i \in 1..Len(a) : a[i] = a[1]

\* C15: _central_diff of a constant series of length >= 2 is a series of the
\* same length whose every entry is zero.
C15_ConstantHasZeroDerivative ==
    (cls = "central_diff" /\ Done /\ ConstantSeries(args.a))
        => /\ Len(data.new_a) = Len(args.a)
           /\ \A i \in 1..Len(data.new_a) :
                  data.new_a[i][1] = 0 /\ data.new_a[i][2] # 0

\* C15 witness: a constant series, not of zeros, with an interior sample
C15_Witness ==
    /\ cls = "central_diff" /\ Done /\ ConstantSeries(args.a)
    /\ args.a[1] # 0 /\ Len(args.a) >= 3
    /\ Len(data.new_a) = Len(args.a)

\* a series that is not constant has a derivative that is not all zero
C15_Varying ==
    (cls = "central_diff" /\ Done /\ ~ConstantSeries(args.a) /\ Len(args.a) <= 3)
        => \E i \in 1..Len(data.new_a) : data.new_a[i][1] # 0

\* millidegrees within which the sine table resolves an angle
Resolution == 10 * 10

\* the azimuths a and b are the same direction at altitude alt, within the
\* resolution, which an altitude near the zenith divides by its cosine
SameAngle(a, b, alt) ==
    LET tol == (Resolution * 10000) \div Cos(alt)
        m   == (a - b) % 360000
    IN  m <= tol \/ m >= 360000 - tol

\* a transform for a module at the boresight: dist = 0 and theta = 0
AtBoresight ==
    cls \in {"to_boresight", "from_boresight"} /\ Done /\ args.dist = 0 /\ args.theta = 0

\* C16: for dist = 0 and theta = 0 the transform to the boresight and the
\* transform from it return the altitude they are given, negative altitudes
\* included, and an azimuth offset of 0.
C16_IdentityAtBoresight ==
    AtBoresight =>
        /\ Len(data.alt_coord) = Len(args.alt)
        /\ \A i \in 1..Len(args.alt) :
              /\ data.alt_coord[i] = args.alt[i]
              /\ SameAngle(data.az_coord[i], args.az[i], args.alt[i])

\* what the code does: the altitude comes back reduced into [0, 360)
C16_IdentityModulo ==
    AtBoresight =>
        \A i \in 1..Len(args.alt) :
            /\ data.alt_coord[i] = args.alt[i] % 360000
            /\ SameAngle(data.az_coord[i], args.az[i], args.alt[i])

\* a path sent from the boresight to a module away from it and back
WentRound == cls = "round_trip" /\ Done /\ ~(args.dist = 0 /\ args.theta = 0)

\* C17: for a module away from the boresight, the transform from the boresight
\* followed by the transform to it returns the boresight altitude of every
\* sample, within the tolerance.
C17_RoundTrip ==
    WentRound =>
        /\ err = "none"
        /\ Len(data.alt_coord) = Len(args.alt)
        /\ \A i \in 1..Len(args.alt) : Abs(data.alt_coord[i] - args.alt[i]) <= Resolution

\* what the code does when every root solve succeeds: the altitude comes
\* back reduced into [0, 360)
C17_RoundTripModulo ==
    (WentRound /\ err = "none") =>
        \A i \in 1..Len(args.alt) :
            Abs(data.alt_coord[i] - (args.alt[i] % 360000)) <= Resolution

\* a round trip that ends in the root solve, from altitudes above the horizon
C17_RoundTripAborts ==
    /\ WentRound /\ err = "TypeError"
    /\ \A i \in 1..Len(args.alt) : args.alt[i] > 0

\* a round trip that succeeds and returns 350 degrees for -10 degrees
C17_RoundTripWraps ==
    /\ WentRound /\ err = "none"
    /\ \E i \in 1..Len(args.alt) : args.alt[i] < 0 /\ data.alt_coord[i] > 180000

\* C18: the first sample of every Pong that is built has time_offset 0 and
\* position (0, 0), whatever num_term, the amplitudes, the periods and the
\* rotation angle are.
C18_PongStartsAtOrigin ==
    (cls = "Pong" /\ Built)
        => /\ Len(data.time_offset) >= 1
           /\ data.time_offset[1] = 0
           /\ data.x_coord[1] = 0 /\ data.y_coord[1] = 0

\* C18 witness: a rotated Pong of two terms that leaves the origin
C18_Witness ==
    /\ cls = "Pong" /\ Built
    /\ param["angle"] # 0 /\ param["num_term"] = 2
    /\ \A k \in {"width", "height", "spacing", "velocity"} : param[k] > 0
    /\ data.time_offset[1] = 0 /\ data.x_coord[1] = 0 /\ data.y_coord[1] = 0
    /\ \E i \in 2..Len(data.x_coord) : data.x_coord[i] # 0 /\ data.y_coord[i] # 0

\* a Pong or a Daisy called with a parameter dictionary of the caller
FromCallerDict == cls \in {"Pong", "Daisy"} /\ pc # "new" /\ args.has_json

\* C19: constructing a Pong or a Daisy from a parameter dictionary of the
\* caller, with or without overriding keywords, leaves that dictionary as it
\* was.
C19_CallerDictUnchanged == FromCallerDict => caller_dict = args.json

\* what the code does: the dictionary of the caller ends as the merge of
\* itself and the keywords, unless the call failed before the merge
C19_CallerDictMerged ==
    FromCallerDict =>
        \/ caller_dict = args.json /\ err = "KeyError"
        \/ /\ \A k \in DOMAIN args.kwargs : Has(caller_dict, k) /\ caller_dict[k] = args.kwargs[k]
           /\ \A k \in DOMAIN args.json \ DOMAIN args.kwargs :
                  \/ Has(caller_dict, k) /\ caller_dict[k] = args.json[k]
                  \/ cls = "Pong" /\ k = "num_repeat" /\ Has(args.kwargs, "max_scan_duration")

\* a Daisy that changes the dictionary of its caller
C19_DaisyChanges == FromCallerDict /\ cls = "Daisy" /\ Built /\ caller_dict # args.json

\* ceil(period/sample_interval) for period = x*y*vert_spacing*2/velocity and
\* vert_spacing = sqrt(2)*s, all positive: the least k with
\* k*v*dt >= 2*sqrt(2)*x*y*s
CountAtVelocity(x, y, s, v, dt) ==
    CHOOSE k \in 0..(3 * x * y * s + 1) :
        /\ k * k * v * v * dt * dt >= 8 * x * x * y * y * s * s
        /\ \A j \in 0..(k - 1) : j * j * v * v * dt * dt < 8 * x * x * y * y * s * s

\* a Pong of one period, built from positive parameters
OnePeriod ==
    /\ cls = "Pong" /\ Built /\ param["num_repeat"] = 1
    /\ \A k \in {"width", "height", "spacing", "velocity", "sample_interval"} : param[k] > 0

\* C20: one period of a Pong has ceil(period/sample_interval) samples for
\* period = x_numvert*y_numvert*vert_spacing*2/velocity, vert_spacing =
\* sqrt(2)*spacing, with the final vertex counts.
C20_PeriodAtVelocity ==
    OnePeriod =>
        Len(data.time_offset) = CountAtVelocity(num_vert[1], num_vert[2], param["spacing"],
                                                param["velocity"], param["sample_interval"])

\* what the code does: vavg = velocity/sqrt(2), and the period is
\* 4*x_numvert*y_numvert*spacing/velocity
C20_PeriodAtAxisVelocity ==
    OnePeriod =>
        LET c == CeilDiv(4 * num_vert[1] * num_vert[2] * param["spacing"],
                         param["velocity"] * param["sample_interval"])
        IN  /\ Len(data.time_offset) \in {c, c + 1}
            /\ \A i \in 1..Len(data.time_offset) :
                   data.time_offset[i] = (i - 1) * param["sample_interval"]

\* a period longer than the one of C20 whichever way the quotient is rounded
C20_LongerPeriod ==
    /\ OnePeriod /\ param["width"] = MaxSide /\ param["height"] = MaxSide
    /\ Len(data.time_offset) > 1 + CountAtVelocity(num_vert[1], num_vert[2], param["spacing"],
                                                   param["velocity"], param["sample_interval"])

\* the quotient held in the pair q equals num / den
QuotientIs(q, num, den) == q[2] # 0 /\ den # 0 /\ q[1] * den = num * q[2]

\* C21: for a series a of length n >= 2 and step h, _central_diff returns n
\* entries: (a[1]-a[0])/h first, (a[n-1]-a[n-2])/h last and
\* (a[i+1]-a[i-1])/(2h) at every interior index.
C21_DifferenceFormulas ==
    (cls = "central_diff" /\ Done)
        => LET a == args.a
               h == args.h
               n == Len(args.a)
               d == data.new_a
           IN  /\ Len(d) = n
               /\ QuotientIs(d[1], a[2] - a[1], h)
               /\ QuotientIs(d[n], a[n] - a[n - 1], h)
               /\ \A i \in 2..(n - 1) : QuotientIs(d[i], a[i + 1] - a[i - 1], 2 * h)

\* C21 witness: a series with two interior samples where the central
\* difference differs from both one-sided ones
C21_Witness ==
    /\ cls = "central_diff" /\ Done
    /\ Len(args.a) = MaxLen + 1
    /\ args.a[3] - args.a[2] # args.a[2] - args.a[1]
    /\ args.h > 1
    /\ QuotientIs(data.new_a[2], args.a[3] - args.a[1], 2 * args.h)

\* set_setting returned and wrote its columns
SettingDone == cls = "ScanPattern" /\ Done /\ err = "none"

\* C22: on every axis the acceleration is the differentiator applied to that
\* axis's velocity and the jerk is the differentiator applied to that axis's
\* acceleration; no derivative is computed from the series of another axis.
C22_DerivativesPerAxis ==
    SettingDone
        => /\ data.az_acc = Differentiate(data.az_vel)
           /\ data.alt_acc = Differentiate(data.alt_vel)
           /\ data.az_jerk = Differentiate(data.az_acc)
           /\ data.alt_jerk = Differentiate(data.alt_acc)

\* what set_setting does write: the altitude jerk is that of the azimuth
C22_AltJerkFromAzimuth ==
    SettingDone
        => /\ data.az_vel = Differentiate(data.az_coord)
           /\ data.alt_vel = Differentiate(data.alt_coord)
           /\ data.az_acc = Differentiate(data.az_vel)
           /\ data.alt_acc = Differentiate(data.alt_vel)
           /\ data.az_jerk = Differentiate(data.az_acc)
           /\ data.alt_jerk = data.az_jerk

\* set_setting wrote columns for axes with different accelerations
C22_AxesDiffer ==
    SettingDone /\ Differentiate(data.alt_acc) # Differentiate(data.az_acc)

\* the vertex counts as math.ceil leaves them, before the adjustment
InitialCounts ==
    <<CeilSqrt2(args.kwargs.width, args.kwargs.spacing),
      CeilSqrt2(args.kwargs.height, args.kwargs.spacing)>>

\* the adjustment of the vertex counts, in the loop and after it
Adjusted ==
    LET init  == InitialCounts
        p     == ParityStep(InitialCounts[1], InitialCounts[2])
        least == 3 - most_i
        same  == InitialCounts[1] % 2 = InitialCounts[2] % 2
    IN  \* at most one +1, only for equal parities, on a count that was not
        \* the larger one
        /\ \A i \in 1..2 : p[i] - init[i] \in {0, 1}
        /\ (p[1] - init[1]) + (p[2] - init[2]) = (IF same THEN 1 ELSE 0)
        /\ \A i \in 1..2 : p[i] # init[i] => init[i] <= init[3 - i]
        \* the loop adds 2 to the larger count only
        /\ p[most_i] > p[least]
        /\ num_vert[least] = p[least]
        /\ num_vert[most_i] >= p[most_i]
        /\ (num_vert[most_i] - p[most_i]) % 2 = 0
        \* parities stay opposite, counts stay at or above the ceilings
        /\ num_vert[1] % 2 # num_vert[2] % 2
        /\ \A i \in 1..2 : num_vert[i] >= init[i]
        \* no more iterations than the smaller count
        /\ num_vert[most_i] <= p[most_i] + 2 * p[least]
        /\ pc = "while" => num_vert[most_i] < MaxVert

\* C23: for initial counts >= 1 the adjustment ends: after at most one +1
\* (only for equal parities) the loop adds 2 to the larger count only, leaves
\* the smaller one alone, keeps the parities opposite at every iteration and
\* stops with both counts at least their initial ceilings.
C23_AdjustmentTerminates ==
    /\ []((cls = "Pong" /\ pc \in {"while", "done"}) => (err = "none" /\ Adjusted))
    /\ (cls = "Pong" /\ pc = "while") ~> (Built /\ GCD(num_vert[1], num_vert[2]) = 1)

\* C23 witness: equal parities at the start and a loop that ran twice
C23_Witness ==
    /\ cls = "Pong" /\ Built
    /\ InitialCounts[1] >= 1 /\ InitialCounts[2] >= 1
    /\ InitialCounts[1] % 2 = InitialCounts[2] % 2
    /\ num_vert[most_i] >= ParityStep(InitialCounts[1], InitialCounts[2])[most_i] + 4

\* Daisy._generate_scan is in its loop or past it
Integrating == cls = "Daisy" /\ pc \in {"for", "done"} /\ err = "none"

\* C24: in every step of the Daisy integration the speed is at most the
\* target velocity: 0 at the start, start_acc*dt more per step, capped at the
\* target as soon as it would reach or pass it and equal to it from then on
\* (start_acc >= 0).
C24_SpeedRampCapped ==
    (Integrating /\ param["start_acc"] >= 0)
        => LET grown == daisy.step * param["start_acc"] * param["sample_interval"]
           IN  /\ daisy.s0 = param["velocity"]
               /\ daisy.speed <= daisy.s0
               /\ daisy.speed = (IF grown >= daisy.s0 THEN daisy.s0 ELSE grown)

\* C24 witness: the speed reached the target after more than one step of the
\* ramp and stayed there
C24_Witness ==
    /\ Integrating /\ Built
    /\ param["start_acc"] > 0
    /\ param["start_acc"] * param["sample_interval"] < daisy.s0
    /\ daisy.step >= 4
    /\ daisy.speed = daisy.s0

\* one iteration of the Daisy loop was taken and stored a sample
DaisyStepped ==
    /\ cls = "Daisy" /\ pc = "for" /\ pc' = "for"
    /\ daisy'.step = daisy.step + 1

\* the iteration starts inside R0, or outside it and heading for the centre
\* by more than the avoidance threshold
StraightCase ==
    LET r2 == daisy.x * daisy.x + daisy.y * daisy.y
    IN  \/ Inside(r2, param["R0"])
        \/ /\ r2 # 0
           /\ Fix * Fix * param["Ra"] * param["Ra"] <= r2
           /\ AimsAtCentre(daisy, r2, param["Ra"])

\* C25: a Daisy step taken with r < R0, or with r >= R0 and an inward heading
\* above the avoidance threshold, moves the position by speed*dt along the
\* tangent and leaves the tangent (vx, vy) as it is; the tangent changes only
\* in a curved step.
C25_StraightKeepsTangent ==
    [][DaisyStepped =>
          /\ StraightCase =>
                /\ daisy'.x = daisy.x + daisy.vx * daisy'.speed * param["sample_interval"]
                /\ daisy'.y = daisy.y + daisy.vy * daisy'.speed * param["sample_interval"]
                /\ daisy'.vx = daisy.vx /\ daisy'.vy = daisy.vy
          /\ (daisy'.vx # daisy.vx \/ daisy'.vy # daisy.vy) => ~StraightCase]_vars

\* C25 witness: after curved steps, a straight step outside R0 that moved the
\* position
C25_Witness ==
    /\ Integrating /\ daisy.branch = "aimed"
    /\ daisy.vy # 0 /\ daisy.speed > 0
    /\ daisy.step >= 2
    /\ daisy.x_coord[daisy.step] # daisy.x_coord[daisy.step - 1]

\* the dictionary Daisy.__init__ hands to _clean_param, completed
DaisyKw == DaisyCleanParam(DaisyMerge(args.has_json, args.json, args.kwargs).kw).kw

\* a Daisy with positive T and dt whose loop stored every one of its N samples
Integrated ==
    /\ cls = "Daisy" /\ Done
    /\ DaisyRequired \subseteq DOMAIN DaisyKw
    /\ DaisyKw["T"] > 0 /\ DaisyKw["sample_interval"] > 0
    /\ daisy # EmptyDict
    /\ daisy.step = daisy.N

\* C26: a Daisy trajectory has N = floor(T/dt) samples, one position per
\* integration step, and the N time offsets 0, dt, ..., (N-1)*dt: for every
\* positive T and dt, multiples of each other or not, the columns have the
\* same length and the construction succeeds.
C26_SampleCount ==
    Integrated
        => LET N == FloorDiv(DaisyKw["T"], DaisyKw["sample_interval"])
           IN  /\ err = "none"
               /\ Len(data.x_coord) = N /\ Len(data.y_coord) = N
               /\ data.time_offset = [i \in 1..N |-> (i - 1) * DaisyKw["sample_interval"]]

\* what holds: the construction succeeds with these columns when T is a
\* multiple of dt, and raises ValueError when it is not
C26_SampleCountOfMultiples ==
    Integrated
        => LET N == FloorDiv(DaisyKw["T"], DaisyKw["sample_interval"])
           IN  IF DaisyKw["T"] % DaisyKw["sample_interval"] = 0
               THEN /\ err = "none"
                    /\ Len(data.x_coord) = N /\ Len(data.y_coord) = N
                    /\ data.time_offset =
                           [i \in 1..N |-> (i - 1) * DaisyKw["sample_interval"]]
               ELSE err = "ValueError" /\ Len(daisy.x_coord) = N

\* a Daisy of several steps with T not a multiple of dt that was integrated
C26_NotMultiple ==
    Integrated /\ DaisyKw["T"] % DaisyKw["sample_interval"] # 0 /\ daisy.N >= 2

\* the last iteration of the Daisy loop started exactly at the centre
StartedAtCentre ==
    /\ Integrating /\ daisy.step >= 1
    /\ IF daisy.step = 1 THEN param["y_offset"] = 0
       ELSE /\ daisy.x_coord[daisy.step - 1] = 0
            /\ daisy.y_coord[daisy.step - 1] = 0

\* C27: whenever the position is exactly the centre (r = 0) the Daisy step is
\* a straight step and the unit radial vector (x/r, y/r) is not evaluated,
\* for every accepted parameter set.
C27_StraightAtCentre ==
    cls = "Daisy"
        => /\ err # "ZeroDivisionError"
           /\ StartedAtCentre => daisy.branch = "inside"

\* what holds: with R0 > 0 the step at the centre is the straight step, and
\* with R0 <= 0 the first step at the centre divides by r = 0
C27_StraightAtCentreInsideR0 ==
    cls = "Daisy"
        => /\ StartedAtCentre => (daisy.branch = "inside" /\ param["R0"] > 0)
           /\ err = "ZeroDivisionError"
                 => /\ DaisyKw["R0"] <= 0 /\ DaisyKw["y_offset"] = 0
                    /\ daisy.step = 0 /\ daisy.N >= 1

\* a step from the centre inside a positive R0
C27_CentreInside == StartedAtCentre /\ daisy.branch = "inside" /\ daisy.speed > 0

\* _transform_to_boresight is in its loop, or left it
Solving == cls = "to_boresight" /\ solve # EmptyDict

\* the guess that the solve of sample solve.i is given, or was given when it
\* failed
GuessFromPrevious ==
    solve.guess = (IF solve.i = 1 THEN solve.alt1[1] ELSE solve.alt0[solve.i - 1])

\* C28: the samples are solved in time order; the guess for sample 0 is its
\* module altitude, the guess for sample i >= 1 is the solution of sample
\* i - 1, and a failed solve leaves the guess at the last solution found.
C28_WarmStart ==
    /\ [](Solving => GuessFromPrevious)
    /\ [][(Solving /\ pc = "solve" /\ solve' # solve)
            => \/ /\ solve'.i = solve.i + 1
                  /\ solve'.guess = solve'.alt0[solve.i]
                  /\ \A j \in 1..Len(solve.alt0) : j # solve.i => solve'.alt0[j] = solve.alt0[j]
               \/ /\ pc' = "done" /\ err' # "none"
                  /\ solve'.i = solve.i
                  /\ solve'.guess = solve.guess]_vars

\* C28 witness: two samples solved with different solutions, the guess being
\* the second
C28_Witness ==
    /\ Solving /\ solve.i >= 3
    /\ solve.alt0[2] # solve.alt0[1]
    /\ solve.guess = solve.alt0[2]
    /\ solve.guess # solve.alt1[1]

\* a solve failed after one that succeeded, and the guess is the solution of
\* the earlier one
C28_FailedAfterSolved ==
    /\ Solving /\ err = "TypeError" /\ solve.i >= 2
    /\ solve.guess = solve.alt0[solve.i - 1]
    /\ solve.guess # solve.alt1[1]

\* C29: with the start-elevation basis, when the construction succeeds the
\* hour angle used for lst0 is the candidate among +h and -h whose up/down
\* classification equals moving_up, the other candidate has the opposite
\* classification, and lst0 = that hour angle + the x offset of the first
\* sample + ra.
C29_ChosenHourAngle ==
    (ElevationBasis /\ err = "none")
        => LET sky == args.kind = "sky"
               dec == 1000 * FirstDec
               lat == Get(args.kwargs, "location", FYST_LAT)
               h   == Acos(AcosArgument(1000 * args.kwargs["start_el"], dec, lat).c)
               x0  == IF sky THEN args.sky.data.x_coord[1] ELSE 0
               t   == IF sky THEN args.sky.data.time_offset ELSE args.sky.time_offset
               un  == IF sky THEN args.sky.unit ELSE 1
               up  == Get(args.kwargs, "moving_up", TRUE)
               Up(c) == Asin(SinAlt(dec, lat, c + 1000)) - Asin(SinAlt(dec, lat, c)) > 0
           IN  \E c \in {h, -h} :
                  /\ Up(c) = up
                  /\ Up(-c) # up
                  /\ data.lst = LstColumn(t, un, c + 1000 * x0 + 1000 * args.kwargs["ra"])

\* C29 witness: a pattern with an x offset at its first sample, built from a
\* start elevation for a setting source
C29_Witness ==
    /\ ElevationBasis /\ err = "none"
    /\ args.kind = "sky"
    /\ args.sky.data.x_coord[1] # 0
    /\ Has(args.kwargs, "moving_up") /\ ~args.kwargs["moving_up"]
    /\ Len(data.lst) >= 2

\* the same for a rising source
C29_Rising ==
    /\ ElevationBasis /\ err = "none"
    /\ args.kind = "sky"
    /\ Has(args.kwargs, "moving_up") /\ args.kwargs["moving_up"]

\* a Daisy with R0 > 0, Rt > 0 and Ra >= 0 whose loop was entered
DaisyInRange ==
    /\ cls = "Daisy" /\ Done
    /\ DaisyRequired \subseteq DOMAIN DaisyKw
    /\ DaisyKw["R0"] > 0 /\ DaisyKw["Rt"] > 0 /\ DaisyKw["Ra"] >= 0
    /\ daisy # EmptyDict

\* the loop of the Daisy ended in a step, on the square root of a negative
\* number
DomainError == err = "ValueError" /\ daisy.step < daisy.N

\* C30: the Daisy integration never takes the square root of a negative
\* number: in every step with r >= R0 the quantity 1 - (Ra/r)^2 is not
\* negative, for R0 > 0, Rt > 0 and Ra >= 0, Ra > R0 included, and the
\* generation does not end midway with a math domain error.
C30_NoDomainError == DaisyInRange => ~DomainError

\* what holds: no domain error when Ra <= R0, and one only at a position
\* with R0 <= r < Ra
C30_NoDomainErrorWithinR0 ==
    (DaisyInRange /\ DomainError)
        => /\ DaisyKw["Ra"] > DaisyKw["R0"]
           /\ daisy.x * daisy.x + daisy.y * daisy.y
                  >= Fix * Fix * DaisyKw["R0"] * DaisyKw["R0"]
           /\ daisy.x * daisy.x + daisy.y * daisy.y
                  < Fix * Fix * DaisyKw["Ra"] * DaisyKw["Ra"]

\* a Daisy with Ra > R0 that never left R0 and was built
C30_BuiltInsideR0 ==
    DaisyInRange /\ err = "none" /\ DaisyKw["Ra"] > DaisyKw["R0"] /\ daisy.N >= 2

====
